---- MODULE Spec2Model ----
(***************************************************************************)
(* GitHub webhook ingestion and changelog assembly of goose-release-agent. *)
(*                                                                         *)
(* The store is the four D1 tables (releases, pull_requests, commits,      *)
(* categories), each a sequence of rows in rowid order.  A webhook request *)
(* is a process: every step is one awaited call (a store statement or a    *)
(* source-control fetch) together with the synchronous code that follows   *)
(* it up to the next await.  Spec delivers the webhooks one after the      *)
(* other, each running to its response; SpecConc interleaves the steps of  *)
(* requests in flight.  Strings that the code inspects by substring   *)
(* or by regular expression (labels, refs, commit messages) are sequences  *)
(* of one-character strings.                                               *)
(***************************************************************************)
EXTENDS Integers, Sequences, FiniteSets, TLC

VARIABLES
    releases,       \* table releases
    pullRequests,   \* table pull_requests
    commits,        \* table commits
    categories,     \* table categories
    reqs,           \* the webhook requests, one per slot
    now,            \* the wall clock (new Date())
    webhookSecret,  \* env.GITHUB_WEBHOOK_SECRET
    delivered       \* how many deliveries the endpoint has received

store == <<releases, pullRequests, commits, categories>>
vars == <<releases, pullRequests, commits, categories, reqs, now, webhookSecret,
          delivered>>

\* null / undefined of a text column or field
NULL == "NULL"
\* null of an integer column (rowids start at 1)
NoId == 0
\* an absent list, object or character string
Nothing == <<>>

-----------------------------------------------------------------------------
(* Bounds of the model *)

\* request slots: how many deliveries may be in flight at once (SpecConc)
MaxInFlight == 2
\* the clock runs from 1 to MaxTime
MaxTime == 2
\* the endpoint receives at most this many deliveries
MaxDeliveries == 3

ReqIds == 1..MaxInFlight

-----------------------------------------------------------------------------
(* Strings as sequences of characters *)

UpperChars == <<"A","B","C","D","E","F","G","H","I","J","K","L","M",
                "N","O","P","Q","R","S","T","U","V","W","X","Y","Z">>
LowerChars == <<"a","b","c","d","e","f","g","h","i","j","k","l","m",
                "n","o","p","q","r","s","t","u","v","w","x","y","z">>
Digits == <<"0","1","2","3","4","5","6","7","8","9">>

\* String.prototype.toLowerCase
ToLowerChar(c) ==
    IF \E k \in 1..Len(UpperChars) : UpperChars[k] = c
    THEN LowerChars[CHOOSE k \in 1..Len(UpperChars) : UpperChars[k] = c]
    ELSE c
ToLowerCase(s) == [k \in 1..Len(s) |-> ToLowerChar(s[k])]

\* String.prototype.includes
Includes(s, t) ==
    \E k \in 0..(Len(s) - Len(t)) : SubSeq(s, k + 1, k + Len(t)) = t

IsDigit(c) == \E k \in 1..Len(Digits) : Digits[k] = c
DigitValue(c) == (CHOOSE k \in 1..Len(Digits) : Digits[k] = c) - 1

\* parseInt of a run of digits
RECURSIVE ParseInt(_)
ParseInt(ds) ==
    IF ds = <<>> THEN 0
    ELSE 10 * ParseInt(SubSeq(ds, 1, Len(ds) - 1)) + DigitValue(ds[Len(ds)])

\* the end of the run of digits that starts at position k of s
RECURSIVE DigitRunEnd(_, _)
DigitRunEnd(s, k) ==
    IF k < Len(s) /\ IsDigit(s[k + 1]) THEN DigitRunEnd(s, k + 1) ELSE k

\* message.match(/#(\d+)/) followed by parseInt(prMatches[1]): the number of
\* the leftmost "#<digits>" of the message, NoMatch when there is none
NoMatch == -1
MatchPrNumber(message) ==
    LET hits == {k \in 1..(Len(message) - 1) :
                    message[k] = "#" /\ IsDigit(message[k + 1])}
    IN  IF hits = {} THEN NoMatch
        ELSE LET k == CHOOSE h \in hits : \A g \in hits : h <= g
             IN  ParseInt(SubSeq(message, k + 1, DigitRunEnd(message, k + 1)))

S_feat == <<"f","e","a","t">>
S_feature == <<"f","e","a","t","u","r","e">>
S_fix == <<"f","i","x">>
S_bug == <<"b","u","g">>
S_improve == <<"i","m","p","r","o","v","e">>
S_enhancement == <<"e","n","h","a","n","c","e","m","e","n","t">>
S_doc == <<"d","o","c">>
S_dep == <<"d","e","p">>
S_break == <<"b","r","e","a","k">>
S_breaking_change == <<"b","r","e","a","k","i","n","g","-","c","h","a","n","g","e">>
S_Bug == <<"B","u","g">>
S_refs_heads == <<"r","e","f","s","/","h","e","a","d","s","/">>
S_main == <<"m","a","i","n">>
S_main2 == <<"m","a","i","n","2">>
S_dev == <<"d","e","v">>

-----------------------------------------------------------------------------
(* The store *)

\* the tables and the clock, as a handler's statement sees them
World ==
    [releases |-> releases, pullRequests |-> pullRequests, commits |-> commits,
     categories |-> categories, now |-> now]

\* .limit(1): the first row of the scan
Limit1(rows) == IF rows = <<>> THEN <<>> ELSE <<rows[1]>>

\* integer primary key: the rowid after the largest one in use
NextId(table) == Len(table) + 1

\* select().from(releases).where(eq(repository, ...))
ReleasesOf(w, repository) ==
    SelectSeq(w.releases, LAMBDA row : row.repository = repository)

\* select().from(releases).where(and(eq(repository, ...), eq(version, ...)))
ReleaseByRepoVersion(w, repository, version) ==
    SelectSeq(w.releases, LAMBDA row : row.repository = repository
                                        /\ row.version = version)

\* a lookup of releases that does not look at the id
AnyRelease(w, id) == w.releases

\* select().from(releases).where(eq(id, ...))
ReleaseById(w, id) ==
    SelectSeq(w.releases, LAMBDA row : row.id = id)

\* a lookup of pull requests by number alone
PullRequestsByNumber(w, prNumber, releaseId) ==
    SelectSeq(w.pullRequests, LAMBDA row : row.prNumber = prNumber)

\* select().from(pullRequests).where(and(eq(prNumber, ...), eq(releaseId, ...)))
PullRequestsBy(w, prNumber, releaseId) ==
    SelectSeq(w.pullRequests, LAMBDA row : row.prNumber = prNumber
                                            /\ row.releaseId = releaseId)

\* a select of the pull requests without its where clause
PullRequestsOfAnyRelease(w, releaseId) == w.pullRequests

\* select().from(pullRequests).where(eq(releaseId, ...))
PullRequestsOfRelease(w, releaseId) ==
    SelectSeq(w.pullRequests, LAMBDA row : row.releaseId = releaseId)

\* select().from(commits).where(eq(hash, ...))
CommitsByHash(w, hash) ==
    SelectSeq(w.commits, LAMBDA row : row.hash = hash)

\* select().from(commits).where(eq(releaseId, ...))
CommitsOfRelease(w, releaseId) ==
    SelectSeq(w.commits, LAMBDA row : row.releaseId = releaseId)

\* a releases table without its unique index
NoVersionTaken(w, version) == FALSE

\* CREATE UNIQUE INDEX releases_version_unique ON releases (version)
ReleaseVersionTaken(w, version) ==
    \E k \in 1..Len(w.releases) : w.releases[k].version = version

\* CREATE UNIQUE INDEX commits_hash_unique ON commits (hash)
CommitHashTaken(w, hash) ==
    \E k \in 1..Len(w.commits) : w.commits[k].hash = hash

\* the six rows initializeDefaultCategories inserts, in insertion order
DefaultCategories ==
    << [id |-> 1, name |-> "Features", displayOrder |-> 1],
       [id |-> 2, name |-> "Bug Fixes", displayOrder |-> 2],
       [id |-> 3, name |-> "Improvements", displayOrder |-> 3],
       [id |-> 4, name |-> "Documentation", displayOrder |-> 4],
       [id |-> 5, name |-> "Dependencies", displayOrder |-> 5],
       [id |-> 6, name |-> "Breaking Changes", displayOrder |-> 0] >>

-----------------------------------------------------------------------------
(* Categorisation of a new pull request *)

\* labelLowerCase.some(l => l.includes(a) || l.includes(b))
SomeLabelIncludes(labelLowerCase, needles) ==
    \E k \in 1..Len(labelLowerCase) :
        \E n \in needles : Includes(labelLowerCase[k], n)

\* categories.find(c => c.name === name), then its id; null when absent
CategoryIdByName(cats, name) ==
    LET found == SelectSeq(cats, LAMBDA c : c.name = name)
    IN  IF found = <<>> THEN NoId ELSE found[1].id

\* the label-to-category chain of storePullRequest
CategoryIdForLabels(labels, cats) ==
    LET labelLowerCase == [k \in 1..Len(labels) |-> ToLowerCase(labels[k])]
    IN  IF SomeLabelIncludes(labelLowerCase, {S_feat, S_feature})
        THEN CategoryIdByName(cats, "Features")
        ELSE IF SomeLabelIncludes(labelLowerCase, {S_fix, S_bug})
        THEN CategoryIdByName(cats, "Bug Fixes")
        ELSE IF SomeLabelIncludes(labelLowerCase, {S_improve, S_enhancement})
        THEN CategoryIdByName(cats, "Improvements")
        ELSE IF SomeLabelIncludes(labelLowerCase, {S_doc})
        THEN CategoryIdByName(cats, "Documentation")
        ELSE IF SomeLabelIncludes(labelLowerCase, {S_dep})
        THEN CategoryIdByName(cats, "Dependencies")
        ELSE IF SomeLabelIncludes(labelLowerCase, {S_break})
        THEN CategoryIdByName(cats, "Breaking Changes")
        ELSE NoId

\* JSON.stringify(labels): the text kept in pull_requests.labels
JsonStringify(value) == <<"json", value>>
\* JSON.parse
JsonParse(text) == text[2]

-----------------------------------------------------------------------------
(* Webhook payloads and the source-control collaborator *)

R1 == "o/r1"
R2 == "o/r2"
Repos == {R1, R2}
Tags == {"v1"}

S_fix_login_1 == <<"F","i","x"," ","(","#","1",")">>
S_see_9_and_1 == <<"s","e","e"," ","#","9"," ","#","1">>
S_tidy == <<"t","i","d","y">>

\* GitHubReleaseWebhookPayload; the releases were published at time 2
ReleasePayload(action, repo, tag, body) ==
    [action |-> action, repo |-> repo, tag |-> tag, name |-> tag,
     body |-> body, published_at |-> 2]

ReleasePayloads ==
    {ReleasePayload("published", repo, tag, "notes") : repo \in Repos, tag \in Tags}
    \cup {ReleasePayload("created", R1, "v1", "first notes"),
          ReleasePayload("edited", R1, "v1", "notes")}

\* a pull request as the webhook and the pulls API carry it
PullRequest(number, mergedAt, labels) ==
    [number |-> number, title |-> "t", login |-> "dev",
     merged_at |-> mergedAt, labels |-> labels]

\* GitHubPullRequestWebhookPayload; merged_at 0 is null
PullPayloads ==
    {[action |-> "closed", repo |-> repo, pull_request |-> PullRequest(1, 1, <<S_Bug>>)]
        : repo \in Repos}
    \cup {[action |-> "closed", repo |-> R1, pull_request |-> PullRequest(1, 0, <<S_Bug>>)],
          [action |-> "opened", repo |-> R1, pull_request |-> PullRequest(1, 0, <<S_Bug>>)]}

\* a commit of a push payload; author Nothing is a missing author
PushCommit(id, message) == [id |-> id, message |-> message, author |-> "dev"]

\* GitHubPushWebhookPayload
PushPayload(repo, branch, cs) ==
    [repo |-> repo, default_branch |-> S_main, ref |-> S_refs_heads \o branch,
     commits |-> cs]

PushPayloads ==
    {PushPayload(repo, S_main, <<PushCommit("h3", S_fix_login_1)>>) : repo \in Repos}
    \cup {PushPayload(R1, S_main, <<PushCommit("h1", S_tidy), PushCommit("h4", S_see_9_and_1)>>),
          PushPayload(R1, S_dev, <<PushCommit("h3", S_fix_login_1)>>),
          PushPayload(R1, S_main2, <<PushCommit("h3", S_fix_login_1)>>)}

PingPayloads == {[zen |-> "z"]}

\* the X-GitHub-Event header with the payloads it comes with
Deliveries ==
    ({"release"} \X ReleasePayloads) \cup ({"pull_request"} \X PullPayloads)
    \cup ({"push"} \X PushPayloads) \cup ({"ping"} \X PingPayloads)

\* GET /repos/{owner}/{repo}/pulls?state=closed: merged and unmerged ones
GitHubClosedPulls(repo) ==
    IF repo = R1
    THEN <<PullRequest(1, 1, <<S_bug>>), PullRequest(3, 0, <<>>), PullRequest(2, 1, <<>>)>>
    ELSE <<>>

\* GET /repos/{owner}/{repo}/pulls/{number}/commits
GitHubPullCommits(repo, number) ==
    IF repo = R1 /\ number = 1 THEN <<[sha |-> "h1", message |-> S_fix_login_1, author |-> "dev"]>>
    ELSE IF repo = R1 /\ number = 2 THEN <<[sha |-> "h2", message |-> S_tidy, author |-> "dev"]>>
    ELSE <<>>

\* a fetch that keeps the closed pull requests that were not merged
FetchClosedPullRequests(repo) == GitHubClosedPulls(repo)

\* prs.filter(pr => pr.merged_at !== null)
fetchMergedPullRequests(repo) ==
    SelectSeq(GitHubClosedPulls(repo), LAMBDA pr : pr.merged_at # 0)

-----------------------------------------------------------------------------
(* Signatures *)

Secret == "s3cret"

\* hex of HMAC-SHA256(key, body): distinct for distinct keys or bodies
HmacSha256Hex(key, body) == <<"hmac", key, body>>

\* the X-Hub-Signature-256 header: Nothing when missing, else prefix and hex
SignatureHeader(prefix, key, body) == <<prefix, HmacSha256Hex(key, body)>>

\* a verification that looks at the prefix and not at the digest
VerifyPrefixOnly(payload, signature) ==
    signature # Nothing /\ webhookSecret # "" /\ signature[1] = "sha256="

\* a verification that does not look at the configured secret first
VerifyWithoutSecret(payload, signature) ==
    signature # Nothing /\ SignatureHeader("sha256=", webhookSecret, payload) = signature

\* GitHubService.verifyWebhookSignature
verifyWebhookSignature(payload, signature) ==
    IF signature = Nothing \/ webhookSecret = "" THEN FALSE
    ELSE IF signature[1] # "sha256=" THEN FALSE
    ELSE SignatureHeader("sha256=", webhookSecret, payload) = signature

\* the signatures a delivery of the raw body may carry
SignaturesFor(raw) ==
    {SignatureHeader("sha256=", Secret, raw)}
    \cup IF raw[2] \in {ReleasePayload("published", R1, "v1", "notes"),
                        [zen |-> "z"]}
         THEN {Nothing,
               SignatureHeader("sha256=", "guess", raw),
               SignatureHeader("sha256=", "", raw),
               SignatureHeader("sha256=", Secret, <<"json", Nothing>>),
               SignatureHeader("sha1=", Secret, raw)}
         ELSE {}

-----------------------------------------------------------------------------
(* ChangelogGenerator *)

\* what a call of the generative backend may do: answer with JSON text,
\* answer with prose, answer with no content, fail with an error whose
\* message names the API, or fail with another error
BackendOutcomes == {"json", "text", "empty", "api_error", "error"}

\* the value of a call that returned, and the mark of one that threw
Returned(value) == [threw |-> FALSE, value |-> value]
Threw == [threw |-> TRUE, value |-> Nothing]

\* a key check that finds a production key
ProductionApiKey == FALSE

\* isTestApiKey: "always use mock responses"
isTestApiKey == TRUE

\* the category a pull request is listed under: its category's name when
\* categoryId is set and names a row, else 'Other Changes'
CategoryNameOf(pr, cats) ==
    LET found == SelectSeq(cats, LAMBDA c : c.id = pr.categoryId)
    IN  IF pr.categoryId # NoId /\ found # <<>> THEN found[1].name
        ELSE "Other Changes"

\* one entry of a category's items
NotesItem(pr) == [title |-> pr.title, prNumber |-> pr.prNumber, author |-> pr.author]

\* categoriesMap[categoryName].items.push(...), the key created on first use
PushItem(map, name, item) ==
    IF \E k \in 1..Len(map) : map[k].title = name
    THEN [k \in 1..Len(map) |->
            IF map[k].title = name
            THEN [map[k] EXCEPT !.items = Append(map[k].items, item)]
            ELSE map[k]]
    ELSE Append(map, [title |-> name, items |-> <<item>>])

\* the JSON branch of generateMockResponse: pullRequests.forEach(...)
RECURSIVE GroupIntoMap(_, _, _)
GroupIntoMap(prs, cats, map) ==
    IF prs = <<>> THEN map
    ELSE GroupIntoMap(Tail(prs), cats,
                      PushItem(map, CategoryNameOf(Head(prs), cats), NotesItem(Head(prs))))

\* the keys of prsByCategory: the category names, or the four defaults
\* when there is no category
MarkdownBuckets(cats) ==
    IF Len(cats) = 0
    THEN <<"Features", "Bug Fixes", "Documentation", "Other Changes">>
    ELSE [k \in 1..Len(cats) |-> cats[k].name]

\* prsByCategory[name].push(pr) on a key that was never set throws
MarkdownThrows(prs, cats) ==
    \E k \in 1..Len(prs) :
        \A b \in 1..Len(MarkdownBuckets(cats)) :
            MarkdownBuckets(cats)[b] # CategoryNameOf(prs[k], cats)

\* the sections of the markdown text: one per bucket that has pull requests
MarkdownSections(prs, cats) ==
    LET buckets == MarkdownBuckets(cats)
        all == [b \in 1..Len(buckets) |->
                  [title |-> buckets[b],
                   items |-> SelectSeq(prs, LAMBDA pr :
                                CategoryNameOf(pr, cats) = buckets[b])]]
        shown == SelectSeq(all, LAMBDA sec : Len(sec.items) > 0)
    IN  [k \in 1..Len(shown) |->
            [title |-> shown[k].title,
             items |-> [n \in 1..Len(shown[k].items) |-> NotesItem(shown[k].items[n])]]]

\* generateMockResponse
generateMockResponse(release, prs, cats, format) ==
    IF format = "json"
    THEN Returned(JsonStringify([version |-> release.version,
                                 releaseDate |-> release.releaseDate,
                                 categories |-> GroupIntoMap(prs, cats, <<>>)]))
    ELSE IF MarkdownThrows(prs, cats) THEN Threw
    ELSE Returned([heading |-> IF release.name # NULL THEN release.name
                               ELSE release.version,
                   description |-> release.description,
                   sections |-> MarkdownSections(prs, cats)])

\* what the backend's answer is worth to processResponse
BackendJson == JsonStringify([version |-> "generated", releaseDate |-> 0,
                              categories |-> <<>>])
BackendText == [heading |-> "generated", description |-> NULL, sections |-> <<>>]

\* generateChangelog: the mock with a test key; else the backend's answer,
\* the mock after an error whose message contains 'API', a throw otherwise
generateChangelog(release, prs, cats, format, backend) ==
    IF isTestApiKey THEN generateMockResponse(release, prs, cats, format)
    ELSE IF backend \in {"api_error", "empty"}
    THEN generateMockResponse(release, prs, cats, format)
    ELSE IF backend = "error" THEN Threw
    ELSE IF format = "json"
    THEN IF backend = "json" THEN Returned(BackendJson) ELSE Threw
    ELSE Returned(BackendText)

\* the ReleaseNotes object
ReleaseNotes(release, commitRows, categoriesMap, raw, includeCommits) ==
    [version |-> release.version, name |-> release.name,
     releaseDate |-> release.releaseDate, description |-> release.description,
     categories |-> categoriesMap,
     commits |-> IF includeCommits THEN commitRows ELSE Nothing,
     raw |-> raw]

\* the formats generateReleaseNotes passes to generateChangelog, in the
\* order of the calls: 'json' first, then options.format for markdown and
\* html unless the first call or the parse of its answer threw
GenerationFormats(release, prs, cats, format, backend) ==
    LET json == generateChangelog(release, prs, cats, "json", backend)
    IN  IF json.threw THEN <<"json">>
        ELSE IF format \in {"markdown", "html"} THEN <<"json", format>>
        ELSE <<"json">>

\* ChangelogGenerator.generateReleaseNotes
generateReleaseNotes(release, prs, commitRows, cats, format, includeCommits, backend) ==
    LET textual == format \in {"markdown", "html"}
        json == generateChangelog(release, prs, cats, "json", backend)
        raw == IF textual THEN generateChangelog(release, prs, cats, format, backend)
               ELSE Returned(Nothing)
        mockJson == generateMockResponse(release, prs, cats, "json")
        mockRaw == IF textual THEN generateMockResponse(release, prs, cats, format)
                   ELSE Returned(Nothing)
    IN  IF ~json.threw /\ ~raw.threw
        THEN Returned(ReleaseNotes(release, commitRows, JsonParse(json.value).categories,
                                   raw.value, includeCommits))
        ELSE IF ~mockRaw.threw
        THEN Returned(ReleaseNotes(release, commitRows, JsonParse(mockJson.value).categories,
                                   mockRaw.value, includeCommits))
        ELSE generateMockResponse(release, prs, cats, format)

-----------------------------------------------------------------------------
(* Webhook requests *)

\* a request slot that has not been used
IdleReq ==
    [pc |-> "idle", ev |-> NULL, raw |-> Nothing, sig |-> Nothing, seeded |-> FALSE,
     after |-> NULL, parsed |-> FALSE, p |-> Nothing, releaseId |-> NoId, i |-> 0, j |-> 0, link |-> NoId,
     catId |-> NoId, count |-> 0, prId |-> NoId, gen |-> Nothing, genErr |-> FALSE,
     generations |-> <<>>,
     backend |-> NULL, http |-> 0, status |-> NULL, err |-> NULL]

InFlight(r) == reqs[r].pc \notin {"idle", "done"}

\* a step's result: the request after it and the store after it
Out(rec, w) == [rec |-> rec, w |-> w]

\* the request's response: c.json(...) with 200, c.text(..., 401), or the
\* route's catch with 500; the handler's locals go out of scope
Respond(rec, http, status, err) ==
    [rec EXCEPT !.pc = "done", !.http = http, !.status = status, !.err = err,
                !.i = 0, !.j = 0, !.link = NoId, !.catId = NoId, !.gen = Nothing]

\* whether ReleaseAgent has seeded the categories
Seeded == Len(categories) > 0

\* how the delivery before this one ended, when it had the same event and
\* body and was accepted, the categories are as they were then, and no
\* other request has been seen
AfterOf(r, ev, rawPayload) ==
    LET prev == reqs[r]
    IN  IF /\ \A q \in ReqIds \ {r} : reqs[q].pc = "idle"
           /\ prev.pc = "done" /\ prev.parsed
           /\ prev.ev = ev /\ prev.raw = rawPayload /\ prev.seeded = Seeded
        THEN IF prev.http = 200 THEN "ok" ELSE "failed"
        ELSE "fresh"

\* the route's guard: !signature || !(await verifyWebhookSignature(...))
SignatureRejected(rawPayload, signature) ==
    signature = Nothing \/ ~verifyWebhookSignature(rawPayload, signature)

\* processReleaseEvent: action !== 'published' && action !== 'created'
ReleaseIgnored(payload) == payload.action \notin {"published", "created"}

\* processPullRequestEvent: action !== 'closed' || !pull_request.merged_at
PullRequestIgnored(payload) ==
    payload.action # "closed" \/ payload.pull_request.merged_at = 0

\* processPushEvent: !ref.includes(`refs/heads/${repository.default_branch}`)
PushIgnored(payload) ==
    ~Includes(payload.ref, S_refs_heads \o payload.default_branch)

\* POST /webhooks/github up to the first statement on the store
Received(r, ev, rawPayload, signature) ==
    LET payload == JsonParse(rawPayload)
        rec == [IdleReq EXCEPT !.ev = ev, !.raw = rawPayload, !.sig = signature,
                               !.seeded = Seeded,
                               !.after = AfterOf(r, ev, rawPayload)]
        ok == [rec EXCEPT !.parsed = TRUE, !.p = payload]
    IN  IF SignatureRejected(rawPayload, signature)
        THEN Respond(rec, 401, "unauthenticated", "signature")
        ELSE IF ev = "release"
        THEN IF ReleaseIgnored(payload) THEN Respond(ok, 200, "ignored", "none")
             ELSE [ok EXCEPT !.pc = "rel_select"]
        ELSE IF ev = "pull_request"
        THEN IF PullRequestIgnored(payload) THEN Respond(ok, 200, "ignored", "none")
             ELSE [ok EXCEPT !.pc = "pl_select_release"]
        ELSE IF ev = "push"
        THEN IF PushIgnored(payload) THEN Respond(ok, 200, "ignored", "none")
             ELSE [ok EXCEPT !.pc = "ps_select_release"]
        ELSE Respond(ok, 200, "ignored", "none")

-----------------------------------------------------------------------------
(* storePullRequest *)

\* the pull request storePullRequest is called with: the webhook's, or the
\* i-th one fetched by the backfill
CurrentPr(rec) ==
    IF rec.ev = "pull_request" THEN rec.p.pull_request
    ELSE fetchMergedPullRequests(rec.p.repo)[rec.i]

\* a storePullRequest without its existence check
NoExistingPullRequest(w, prNumber, releaseId) == <<>>

\* "Skip if already exists": the row of (pr.number, releaseId), if any
ExistingPullRequest(w, prNumber, releaseId) ==
    Limit1(PullRequestsBy(w, prNumber, releaseId))

\* the row storePullRequest inserts
NewPullRequestRow(w, pr, releaseId, categoryId) ==
    [id |-> NextId(w.pullRequests), prNumber |-> pr.number, releaseId |-> releaseId,
     title |-> pr.title, author |-> pr.login,
     mergedAt |-> IF pr.merged_at # 0 THEN pr.merged_at ELSE w.now,
     labels |-> JsonStringify(pr.labels), categoryId |-> categoryId]

\* where the caller of storePullRequest goes on: processPullRequestEvent
\* returns the id, the backfill drops it
AfterStorePr(rec) ==
    IF rec.ev = "pull_request" THEN Respond(rec, 200, rec.status, "none")
    ELSE [rec EXCEPT !.pc = "fc_fetch", !.catId = NoId, !.prId = NoId]

\* a storePullRequest that overwrites the labels of the row it finds
StorePrUpsert(rec, w) ==
    LET existingPrs == ExistingPullRequest(w, CurrentPr(rec).number, rec.releaseId)
    IN  IF Len(existingPrs) > 0
        THEN Out(AfterStorePr([rec EXCEPT !.prId = existingPrs[1].id]),
                 [w EXCEPT !.pullRequests =
                    [k \in 1..Len(w.pullRequests) |->
                        IF w.pullRequests[k].id = existingPrs[1].id
                        THEN [w.pullRequests[k] EXCEPT
                                 !.labels = JsonStringify(CurrentPr(rec).labels)]
                        ELSE w.pullRequests[k]]])
        ELSE Out([rec EXCEPT !.pc = "sp_categories"], w)

StorePrSelect(rec, w) ==
    LET existingPrs == ExistingPullRequest(w, CurrentPr(rec).number, rec.releaseId)
    IN  IF Len(existingPrs) > 0
        THEN Out(AfterStorePr([rec EXCEPT !.prId = existingPrs[1].id]), w)
        ELSE Out([rec EXCEPT !.pc = "sp_categories"], w)

StorePrCategories(rec, w) ==
    Out([rec EXCEPT !.pc = "sp_insert",
                    !.catId = CategoryIdForLabels(CurrentPr(rec).labels, w.categories)],
        w)

StorePrInsert(rec, w) ==
    Out(AfterStorePr([rec EXCEPT !.prId = NextId(w.pullRequests)]),
        [w EXCEPT !.pullRequests =
            Append(w.pullRequests,
                   NewPullRequestRow(w, CurrentPr(rec), rec.releaseId, rec.catId))])

-----------------------------------------------------------------------------
(* processPullRequestEvent *)

\* the draft release of a repository without releases
DraftReleaseRow(w, repository) ==
    [id |-> NextId(w.releases), version |-> "unreleased", name |-> NULL,
     repository |-> repository, description |-> NULL, releaseDate |-> w.now,
     generatedNotes |-> Nothing, publishedStatus |-> "draft", updatedAt |-> w.now]

\* a lookup that takes the release of the repository inserted last
PullSelectLatestRelease(rec, w) ==
    LET all == ReleasesOf(w, rec.p.repo)
        found == IF all = <<>> THEN <<>> ELSE <<all[Len(all)]>>
    IN  IF Len(found) = 0 THEN Out([rec EXCEPT !.pc = "pl_insert_draft"], w)
        ELSE Out([rec EXCEPT !.pc = "sp_select", !.releaseId = found[1].id,
                             !.status = "added"], w)

PullSelectRelease(rec, w) ==
    LET found == Limit1(ReleasesOf(w, rec.p.repo))
    IN  IF Len(found) = 0 THEN Out([rec EXCEPT !.pc = "pl_insert_draft"], w)
        ELSE Out([rec EXCEPT !.pc = "sp_select", !.releaseId = found[1].id,
                             !.status = "added"], w)

PullInsertDraft(rec, w) ==
    IF ReleaseVersionTaken(w, "unreleased")
    THEN Out(Respond(rec, 500, "error", "unique"), w)
    ELSE Out([rec EXCEPT !.pc = "sp_select", !.releaseId = NextId(w.releases),
                         !.status = "draft-release-created"],
             [w EXCEPT !.releases = Append(w.releases, DraftReleaseRow(w, rec.p.repo))])

-----------------------------------------------------------------------------
(* processPushEvent *)

\* "Skip if necessary info is missing"
CommitIncomplete(commit) ==
    commit.id = NULL \/ commit.message = Nothing \/ commit.author = NULL

\* the loop head: skip the commits without id, message or author; stop at
\* the first commit to look up, or return the count after the last one
RECURSIVE PushNext(_)
PushNext(rec) ==
    IF rec.j > Len(rec.p.commits)
    THEN Respond(rec, 200, "processed", "none")
    ELSE IF CommitIncomplete(rec.p.commits[rec.j])
    THEN PushNext([rec EXCEPT !.j = rec.j + 1])
    ELSE [rec EXCEPT !.pc = "ps_select_commit", !.link = NoId]

\* the row processPushEvent inserts
PushCommitRow(w, commit, releaseId, pullRequestId) ==
    [id |-> NextId(w.commits), hash |-> commit.id, releaseId |-> releaseId,
     pullRequestId |-> pullRequestId, message |-> commit.message,
     author |-> commit.author]

PushSelectRelease(rec, w) ==
    LET found == Limit1(ReleasesOf(w, rec.p.repo))
    IN  IF Len(found) = 0 THEN Out(Respond(rec, 200, "no-release", "none"), w)
        ELSE Out(PushNext([rec EXCEPT !.releaseId = found[1].id, !.j = 1]), w)

\* a loop that links a stored commit to a pull request stored since
PushSelectCommitRelink(rec, w) ==
    LET commit == rec.p.commits[rec.j]
        existingCommits == Limit1(CommitsByHash(w, commit.id))
        prs == Limit1(PullRequestsBy(w, MatchPrNumber(commit.message), rec.releaseId))
    IN  IF Len(existingCommits) > 0
        THEN Out(PushNext([rec EXCEPT !.j = rec.j + 1]),
                 [w EXCEPT !.commits =
                    [k \in 1..Len(w.commits) |->
                        IF w.commits[k].hash = commit.id /\ Len(prs) > 0
                        THEN [w.commits[k] EXCEPT !.pullRequestId = prs[1].id]
                        ELSE w.commits[k]]])
        ELSE IF MatchPrNumber(commit.message) # NoMatch
        THEN Out([rec EXCEPT !.pc = "ps_select_pr"], w)
        ELSE Out([rec EXCEPT !.pc = "ps_insert_commit"], w)

\* a loop that counts the commits it skips as stored
PushSelectCommitCounted(rec, w) ==
    LET commit == rec.p.commits[rec.j]
        existingCommits == Limit1(CommitsByHash(w, commit.id))
    IN  IF Len(existingCommits) > 0
        THEN Out(PushNext([rec EXCEPT !.j = rec.j + 1, !.count = rec.count + 1]), w)
        ELSE IF MatchPrNumber(commit.message) # NoMatch
        THEN Out([rec EXCEPT !.pc = "ps_select_pr"], w)
        ELSE Out([rec EXCEPT !.pc = "ps_insert_commit"], w)

PushSelectCommit(rec, w) ==
    LET commit == rec.p.commits[rec.j]
        existingCommits == Limit1(CommitsByHash(w, commit.id))
    IN  IF Len(existingCommits) > 0
        THEN Out(PushNext([rec EXCEPT !.j = rec.j + 1]), w)
        ELSE IF MatchPrNumber(commit.message) # NoMatch
        THEN Out([rec EXCEPT !.pc = "ps_select_pr"], w)
        ELSE Out([rec EXCEPT !.pc = "ps_insert_commit"], w)

\* a lookup that falls back to the first pull request of the release
PushSelectPrFallback(rec, w) ==
    LET prNumber == MatchPrNumber(rec.p.commits[rec.j].message)
        prs == Limit1(PullRequestsBy(w, prNumber, rec.releaseId))
        any == Limit1(SelectSeq(w.pullRequests, LAMBDA pr : pr.releaseId = rec.releaseId))
    IN  Out([rec EXCEPT !.pc = "ps_insert_commit",
                        !.link = IF Len(prs) > 0 THEN prs[1].id
                                 ELSE IF Len(any) > 0 THEN any[1].id ELSE NoId], w)

PushSelectPr(rec, w) ==
    LET prNumber == MatchPrNumber(rec.p.commits[rec.j].message)
        prs == Limit1(PullRequestsBy(w, prNumber, rec.releaseId))
    IN  Out([rec EXCEPT !.pc = "ps_insert_commit",
                        !.link = IF Len(prs) > 0 THEN prs[1].id ELSE NoId], w)

PushInsertCommit(rec, w) ==
    LET commit == rec.p.commits[rec.j]
    IN  IF CommitHashTaken(w, commit.id)
        THEN Out(Respond(rec, 500, "error", "unique"), w)
        ELSE Out(PushNext([rec EXCEPT !.j = rec.j + 1, !.count = rec.count + 1]),
                 [w EXCEPT !.commits =
                     Append(w.commits,
                            PushCommitRow(w, commit, rec.releaseId, rec.link))])

-----------------------------------------------------------------------------
(* processReleaseEvent and the backfill *)

\* the row processReleaseEvent inserts
PublishedReleaseRow(w, payload) ==
    [id |-> NextId(w.releases), version |-> payload.tag, name |-> payload.name,
     repository |-> payload.repo, description |-> payload.body,
     releaseDate |-> payload.published_at, generatedNotes |-> Nothing,
     publishedStatus |-> "published", updatedAt |-> w.now]

\* an insert-or-replace: the row is deleted and inserted again under a new id
ReplacedReleaseRow(w, row, payload) ==
    [row EXCEPT !.id = NextId(w.releases), !.name = payload.name,
                !.description = payload.body, !.publishedStatus = "published",
                !.generatedNotes = Nothing, !.updatedAt = w.now]

\* update(releases).set({name, description, publishedStatus, updatedAt})
UpdatedReleaseRow(w, row, payload) ==
    [row EXCEPT !.name = payload.name, !.description = payload.body,
                !.publishedStatus = "published", !.updatedAt = w.now]

\* the loop of fetchAndStorePRsForRelease: store the i-th fetched pull
\* request, or return to processReleaseEvent, which returns `created`
BackfillNextPr(rec) ==
    IF rec.i <= Len(fetchMergedPullRequests(rec.p.repo))
    THEN [rec EXCEPT !.pc = "sp_select", !.j = 0, !.link = NoId]
    ELSE [rec EXCEPT !.pc = "gen_release", !.i = 0, !.j = 0, !.link = NoId]

\* the loop of fetchAndStoreCommitsForPR
BackfillNextCommit(rec) ==
    IF rec.j <= Len(GitHubPullCommits(rec.p.repo, CurrentPr(rec).number))
    THEN [rec EXCEPT !.pc = "fc_select_commit"]
    ELSE BackfillNextPr([rec EXCEPT !.i = rec.i + 1])

\* the row fetchAndStoreCommitsForPR inserts
BackfillCommitRow(w, commit, releaseId, pullRequestId) ==
    [id |-> NextId(w.commits), hash |-> commit.sha, releaseId |-> releaseId,
     pullRequestId |-> pullRequestId, message |-> commit.message,
     author |-> commit.author]

ReleaseSelect(rec, w) ==
    LET existingReleases == Limit1(ReleaseByRepoVersion(w, rec.p.repo, rec.p.tag))
    IN  IF Len(existingReleases) > 0
        THEN Out([rec EXCEPT !.pc = "rel_update",
                             !.releaseId = existingReleases[1].id], w)
        ELSE Out([rec EXCEPT !.pc = "rel_insert"], w)

\* an update of the stored release that goes on to the backfill
ReleaseUpdateAndBackfill(rec, w) ==
    Out([rec EXCEPT !.pc = "bf_fetch", !.status = "updated"],
        [w EXCEPT !.releases =
            [k \in 1..Len(w.releases) |->
                IF w.releases[k].id = rec.releaseId
                THEN UpdatedReleaseRow(w, w.releases[k], rec.p)
                ELSE w.releases[k]]])

ReleaseUpdate(rec, w) ==
    Out([rec EXCEPT !.pc = "gen_release", !.status = "updated"],
        [w EXCEPT !.releases =
            [k \in 1..Len(w.releases) |->
                IF w.releases[k].id = rec.releaseId
                THEN UpdatedReleaseRow(w, w.releases[k], rec.p)
                ELSE w.releases[k]]])

ReleaseInsert(rec, w) ==
    IF ReleaseVersionTaken(w, rec.p.tag)
    THEN Out(Respond(rec, 500, "error", "unique"), w)
    ELSE Out([rec EXCEPT !.pc = "bf_fetch", !.releaseId = NextId(w.releases),
                         !.status = "created"],
             [w EXCEPT !.releases = Append(w.releases, PublishedReleaseRow(w, rec.p))])

\* githubService.fetchMergedPullRequests: the call returns or throws
FetchMergedPullRequests(rec, w, responseOk) ==
    IF responseOk THEN Out(BackfillNextPr([rec EXCEPT !.i = 1]), w)
    ELSE Out(Respond(rec, 500, "error", "upstream"), w)

\* githubService.fetchCommitsForPullRequest: the call returns or throws
FetchCommitsForPullRequest(rec, w, responseOk) ==
    IF responseOk THEN Out([rec EXCEPT !.pc = "fc_select_pr"], w)
    ELSE Out(Respond(rec, 500, "error", "upstream"), w)

BackfillSelectPr(rec, w) ==
    LET prs == Limit1(PullRequestsBy(w, CurrentPr(rec).number, rec.releaseId))
    IN  IF Len(prs) = 0 THEN Out(BackfillNextPr([rec EXCEPT !.i = rec.i + 1]), w)
        ELSE Out(BackfillNextCommit([rec EXCEPT !.link = prs[1].id, !.j = 1]), w)

BackfillSelectCommit(rec, w) ==
    LET commit == GitHubPullCommits(rec.p.repo, CurrentPr(rec).number)[rec.j]
        existingCommits == Limit1(CommitsByHash(w, commit.sha))
    IN  IF Len(existingCommits) > 0
        THEN Out(BackfillNextCommit([rec EXCEPT !.j = rec.j + 1]), w)
        ELSE Out([rec EXCEPT !.pc = "fc_insert_commit"], w)

BackfillInsertCommit(rec, w) ==
    LET commit == GitHubPullCommits(rec.p.repo, CurrentPr(rec).number)[rec.j]
    IN  IF CommitHashTaken(w, commit.sha)
        THEN Out(Respond(rec, 500, "error", "unique"), w)
        ELSE Out(BackfillNextCommit([rec EXCEPT !.j = rec.j + 1]),
                 [w EXCEPT !.commits =
                     Append(w.commits,
                            BackfillCommitRow(w, commit, rec.releaseId, rec.link))])

-----------------------------------------------------------------------------
(* WebhookHandler.generateReleaseNotes, as the route calls it after a release *)

\* the defaults of generateReleaseNotes(releaseId)
DefaultFormat == "markdown"
DefaultIncludeCommits == TRUE

GenSelectRelease(rec, w) ==
    LET found == Limit1(ReleaseById(w, rec.releaseId))
    IN  IF Len(found) = 0 THEN Out(Respond(rec, 200, rec.status, "none"), w)
        ELSE Out([rec EXCEPT !.pc = "gen_prs",
                             !.gen = [release |-> found[1], prs |-> <<>>,
                                      commits |-> <<>>, notes |-> Nothing]], w)

GenSelectPullRequests(rec, w) ==
    Out([rec EXCEPT !.pc = "gen_commits",
                    !.gen.prs = PullRequestsOfRelease(w, rec.releaseId)], w)

GenSelectCommits(rec, w) ==
    Out([rec EXCEPT !.pc = "gen_categories",
                    !.gen.commits = IF DefaultIncludeCommits
                                    THEN CommitsOfRelease(w, rec.releaseId)
                                    ELSE <<>>], w)

\* a generation whose exception reaches the catch of the route
GenSelectCategoriesRethrow(rec, w, backend) ==
    LET releaseNotes == generateReleaseNotes(rec.gen.release, rec.gen.prs,
                            rec.gen.commits, w.categories, DefaultFormat,
                            DefaultIncludeCommits, backend)
        generations == GenerationFormats(rec.gen.release, rec.gen.prs, w.categories,
                                         DefaultFormat, backend)
    IN  IF releaseNotes.threw
        THEN Out([Respond(rec, 500, "error", "generation") EXCEPT
                        !.genErr = TRUE, !.backend = backend,
                        !.generations = generations], w)
        ELSE Out([rec EXCEPT !.pc = "gen_update", !.generations = generations,
                             !.gen = [release |-> Nothing, prs |-> <<>>,
                                      commits |-> <<>>,
                                      notes |-> releaseNotes.value]], w)

\* the last read and the generation; an exception ends in the catch of
\* WebhookHandler.generateReleaseNotes, and the route answers all the same
GenSelectCategories(rec, w, backend) ==
    LET releaseNotes == generateReleaseNotes(rec.gen.release, rec.gen.prs,
                            rec.gen.commits, w.categories, DefaultFormat,
                            DefaultIncludeCommits, backend)
        generations == GenerationFormats(rec.gen.release, rec.gen.prs, w.categories,
                                         DefaultFormat, backend)
    IN  IF releaseNotes.threw
        THEN Out([Respond(rec, 200, rec.status, "none") EXCEPT
                        !.genErr = TRUE, !.backend = backend,
                        !.generations = generations], w)
        ELSE Out([rec EXCEPT !.pc = "gen_update", !.generations = generations,
                             !.gen = [release |-> Nothing, prs |-> <<>>,
                                      commits |-> <<>>,
                                      notes |-> releaseNotes.value]], w)

\* an update of the notes without its where clause
GenUpdateEveryRelease(rec, w) ==
    Out(Respond(rec, 200, rec.status, "none"),
        [w EXCEPT !.releases =
            [k \in 1..Len(w.releases) |->
                [w.releases[k] EXCEPT
                    !.generatedNotes = JsonStringify(rec.gen.notes),
                    !.updatedAt = w.now]]])

GenUpdate(rec, w) ==
    Out(Respond(rec, 200, rec.status, "none"),
        [w EXCEPT !.releases =
            [k \in 1..Len(w.releases) |->
                IF w.releases[k].id = rec.releaseId
                THEN [w.releases[k] EXCEPT
                        !.generatedNotes = JsonStringify(rec.gen.notes),
                        !.updatedAt = w.now]
                ELSE w.releases[k]]])

-----------------------------------------------------------------------------
(* The requests as processes *)

\* what the collaborators do at a step: whether the source-control call
\* returns, and how the generative backend answers
Envs == [fetchOk : BOOLEAN, backend : BackendOutcomes]

\* one awaited call of a request and the code up to the next one
StepOf(rec, w, env) ==
    CASE rec.pc = "rel_select" -> ReleaseSelect(rec, w)
      [] rec.pc = "rel_update" -> ReleaseUpdate(rec, w)
      [] rec.pc = "rel_insert" -> ReleaseInsert(rec, w)
      [] rec.pc = "bf_fetch" -> FetchMergedPullRequests(rec, w, env.fetchOk)
      [] rec.pc = "fc_fetch" -> FetchCommitsForPullRequest(rec, w, env.fetchOk)
      [] rec.pc = "fc_select_pr" -> BackfillSelectPr(rec, w)
      [] rec.pc = "fc_select_commit" -> BackfillSelectCommit(rec, w)
      [] rec.pc = "fc_insert_commit" -> BackfillInsertCommit(rec, w)
      [] rec.pc = "sp_select" -> StorePrSelect(rec, w)
      [] rec.pc = "sp_categories" -> StorePrCategories(rec, w)
      [] rec.pc = "sp_insert" -> StorePrInsert(rec, w)
      [] rec.pc = "pl_select_release" -> PullSelectRelease(rec, w)
      [] rec.pc = "pl_insert_draft" -> PullInsertDraft(rec, w)
      [] rec.pc = "ps_select_release" -> PushSelectRelease(rec, w)
      [] rec.pc = "ps_select_commit" -> PushSelectCommit(rec, w)
      [] rec.pc = "ps_select_pr" -> PushSelectPr(rec, w)
      [] rec.pc = "ps_insert_commit" -> PushInsertCommit(rec, w)
      [] rec.pc = "gen_release" -> GenSelectRelease(rec, w)
      [] rec.pc = "gen_prs" -> GenSelectPullRequests(rec, w)
      [] rec.pc = "gen_commits" -> GenSelectCommits(rec, w)
      [] rec.pc = "gen_categories" -> GenSelectCategories(rec, w, env.backend)
      [] rec.pc = "gen_update" -> GenUpdate(rec, w)
      [] OTHER -> Out(rec, w)

\* the source-control calls one request can make: the list of pull
\* requests, then the commits of each merged one
FetchCalls == 1 + Len(fetchMergedPullRequests(R1))

\* what the collaborators do during one request: which source-control call
\* fails (0: none) and how the generative backend answers; only a release
\* that is stored reaches them, and the backend only when no call failed
PlansFor(rec) ==
    IF rec.pc = "rel_select"
    THEN {plan \in [failAt : 0..FetchCalls, backend : BackendOutcomes] :
            plan.failAt > 0 => plan.backend = "json"}
    ELSE {[failAt |-> 0, backend |-> "json"]}

\* a request run to its response, nothing else running meanwhile
RECURSIVE Complete(_, _, _, _)
Complete(rec, w, plan, calls) ==
    IF rec.pc = "done" THEN Out(rec, w)
    ELSE LET isFetch == rec.pc \in {"bf_fetch", "fc_fetch"}
             env == [fetchOk |-> ~(isFetch /\ calls + 1 = plan.failAt),
                     backend |-> plan.backend]
             out == StepOf(rec, w, env)
         IN  Complete(out.rec, out.w, plan, IF isFetch THEN calls + 1 ELSE calls)

-----------------------------------------------------------------------------
(* ReleaseAgent: the requests the worker forwards to the agent *)

\* a seeding that does not look at the table first
SeedEveryRequest(w) ==
    [w EXCEPT !.categories =
        w.categories \o [k \in 1..Len(DefaultCategories) |->
                            [DefaultCategories[k] EXCEPT !.id = Len(w.categories) + k]]]

\* onRequest runs initializeDefaultCategories before it routes the request
AfterInitializeDefaultCategories(w) ==
    IF Len(w.categories) = 0 THEN [w EXCEPT !.categories = DefaultCategories] ELSE w

\* new Response(JSON.stringify(body), { status }) of an agent route
AgentResponse(route, data, http, err, body) ==
    [IdleReq EXCEPT !.pc = "done", !.ev = route, !.p = data, !.parsed = TRUE,
                    !.http = http, !.err = err, !.gen = body]

\* a select of the categories in the order of their rows
OrderByRowid(cats) == cats

\* .orderBy(categories.displayOrder)
RECURSIVE OrderByDisplayOrder(_)
OrderByDisplayOrder(cats) ==
    IF cats = <<>> THEN <<>>
    ELSE LET k == CHOOSE k \in 1..Len(cats) : \A m \in 1..Len(cats) :
                     \/ cats[k].displayOrder < cats[m].displayOrder
                     \/ cats[k].displayOrder = cats[m].displayOrder /\ k <= m
         IN  <<cats[k]>> \o OrderByDisplayOrder(SubSeq(cats, 1, k - 1)
                                                 \o SubSeq(cats, k + 1, Len(cats)))

\* categorizedPRs: one key per category in the order read, then the key
\* 'Other Changes' when a pull request has no category or an unknown one
categorizedPRs(prs, cats) ==
    LET named == [k \in 1..Len(cats) |->
                    [title |-> cats[k].name,
                     items |-> SelectSeq(prs, LAMBDA pr :
                                  pr.categoryId # NoId /\ pr.categoryId = cats[k].id)]]
        uncategorizedPRs ==
            SelectSeq(prs, LAMBDA pr :
                \/ pr.categoryId = NoId
                \/ \A k \in 1..Len(cats) : cats[k].id # pr.categoryId)
    IN  IF Len(uncategorizedPRs) > 0
        THEN Append(named, [title |-> "Other Changes", items |-> uncategorizedPRs])
        ELSE named

\* releaseNotes.categories: the keys that have pull requests
AgentNotesCategories(prs, cats) ==
    LET shown == SelectSeq(categorizedPRs(prs, cats), LAMBDA c : Len(c.items) > 0)
    IN  [k \in 1..Len(shown) |->
            [title |-> shown[k].title,
             items |-> [n \in 1..Len(shown[k].items) |-> NotesItem(shown[k].items[n])]]]

\* one line of rendered notes: its markup, its words, the pull request it
\* refers to and the author it names
Line(mark, text, ref, author) ==
    [mark |-> mark, text |-> text, ref |-> ref, author |-> author]

\* the markup of generateMarkdownNotes and of generateHtmlNotes
MarkOf(format, part) ==
    IF format = "markdown"
    THEN CASE part = "title" -> "#" [] part = "date" -> "**Released:**"
           [] part = "section" -> "##" [] part = "item" -> "-" [] OTHER -> ""
    ELSE CASE part = "title" -> "<h1>" [] part = "date" -> "<p><strong>Released:</strong>"
           [] part = "section" -> "<h2>" [] part = "item" -> "<li>" [] OTHER -> "<p>"

\* the heading and the items of each category, in the order of the object
RECURSIVE CategoryLines(_, _)
CategoryLines(cs, format) ==
    IF cs = <<>> THEN <<>>
    ELSE <<Line(MarkOf(format, "section"), <<Head(cs).title>>, NoId, NULL)>>
         \o [n \in 1..Len(Head(cs).items) |->
               Line(MarkOf(format, "item"), <<Head(cs).items[n].title>>,
                    Head(cs).items[n].prNumber, Head(cs).items[n].author)]
         \o CategoryLines(Tail(cs), format)

\* generateMarkdownNotes: the text, line by line
generateMarkdownNotes(notes) ==
    <<"markdown",
      <<Line("#", <<notes.version>>
                  \o (IF notes.name # NULL THEN <<"-", notes.name>> ELSE <<>>),
             NoId, NULL),
        Line("**Released:**", <<>>, notes.releaseDate, NULL)>>
      \o (IF notes.description # NULL
          THEN <<Line("", <<notes.description>>, NoId, NULL)>>
          ELSE <<>>)
      \o CategoryLines(notes.categories, "markdown")
      \o (IF Len(notes.commits) > 0
          THEN <<Line("##", <<"Commits">>, NoId, NULL)>>
               \o [n \in 1..Len(notes.commits) |->
                     Line("-", <<notes.commits[n].hash>>, NoId, notes.commits[n].author)]
          ELSE <<>>)>>

\* an html text with a Commits heading whether or not there are commits
generateHtmlNotesWithCommitsHeading(notes) ==
    <<"html",
      <<Line("<h1>", <<notes.version>>, NoId, NULL),
        Line("<p><strong>Released:</strong>", <<>>, notes.releaseDate, NULL)>>
      \o CategoryLines(notes.categories, "html")
      \o <<Line("<h2>", <<"Commits">>, NoId, NULL)>>
      \o [n \in 1..Len(notes.commits) |->
            Line("<li>", <<notes.commits[n].hash>>, NoId, notes.commits[n].author)]>>

\* generateHtmlNotes: the text, element by element
generateHtmlNotes(notes) ==
    <<"html",
      <<Line("<h1>", <<notes.version>>
                     \o (IF notes.name # NULL THEN <<"-", notes.name>> ELSE <<>>),
             NoId, NULL),
        Line("<p><strong>Released:</strong>", <<>>, notes.releaseDate, NULL)>>
      \o (IF notes.description # NULL
          THEN <<Line("<p>", <<notes.description>>, NoId, NULL)>>
          ELSE <<>>)
      \o CategoryLines(notes.categories, "html")
      \o (IF Len(notes.commits) > 0
          THEN <<Line("<h2>", <<"Commits">>, NoId, NULL)>>
               \o [n \in 1..Len(notes.commits) |->
                     Line("<li>", <<notes.commits[n].hash>>, NoId, notes.commits[n].author)]
          ELSE <<>>)>>

\* the rendering handleGenerateNotes chooses for the format
RenderNotes(notes, format) ==
    IF format = "markdown" THEN generateMarkdownNotes(notes)
    ELSE generateHtmlNotes(notes)

\* GenerateNotesRequest; releaseId 0 is a missing one, format NULL a missing one
GenerateNotesRequests ==
    [releaseId : 0..2, format : {NULL, "json", "markdown", "html"},
     includeCommits : BOOLEAN]

\* handleGenerateNotes
handleGenerateNotes(w0, data) ==
    LET w == AfterInitializeDefaultCategories(w0)
        format == IF data.format = NULL THEN "json" ELSE data.format
        release == Limit1(ReleaseById(w, data.releaseId))
        cats == OrderByDisplayOrder(w.categories)
        prs == PullRequestsOfRelease(w, data.releaseId)
        commitRows == IF data.includeCommits THEN CommitsOfRelease(w, data.releaseId)
                      ELSE <<>>
        releaseNotes ==
            [version |-> release[1].version, name |-> release[1].name,
             releaseDate |-> release[1].releaseDate,
             description |-> release[1].description,
             categories |-> AgentNotesCategories(prs, cats),
             commits |-> IF data.includeCommits THEN commitRows ELSE Nothing]
        raw == IF format \in {"markdown", "html"} THEN RenderNotes(releaseNotes, format)
               ELSE JsonStringify(releaseNotes)
    IN  IF data.releaseId = 0
        THEN Out(AgentResponse("generate-notes", data, 400, "Release ID is required",
                               Nothing), w)
        ELSE IF Len(release) = 0
        THEN Out(AgentResponse("generate-notes", data, 404, "Release not found",
                               Nothing), w)
        ELSE Out(AgentResponse("generate-notes", data, 200, "none",
                               [releaseNotes |-> releaseNotes, format |-> format,
                                raw |-> raw]),
                 [w EXCEPT !.releases =
                     [k \in 1..Len(w.releases) |->
                         IF w.releases[k].id = data.releaseId
                         THEN [w.releases[k] EXCEPT !.generatedNotes = raw,
                                                    !.updatedAt = w.now]
                         ELSE w.releases[k]]])

\* CreateReleaseRequest; version or repository NULL is a missing one
CreateReleaseRequests ==
    [version : {NULL, "v1", "v2"}, repository : {NULL, R1}]

\* a check for an existing version that finds nothing
NoReleaseByVersion(w, version) == <<>>

\* "Check if release already exists": select by version, limit 1
ExistingReleaseByVersion(w, version) ==
    Limit1(SelectSeq(w.releases, LAMBDA row : row.version = version))

\* the row handleCreateRelease inserts
AgentReleaseRow(w, data) ==
    [id |-> NextId(w.releases), version |-> data.version, name |-> NULL,
     repository |-> data.repository, description |-> NULL, releaseDate |-> w.now,
     generatedNotes |-> Nothing, publishedStatus |-> "draft", updatedAt |-> w.now]

\* handleCreateRelease; an insert that the table refuses (repository NOT
\* NULL, version UNIQUE) ends in the catch
handleCreateRelease(w0, data) ==
    LET w == AfterInitializeDefaultCategories(w0)
        existingRelease == ExistingReleaseByVersion(w, data.version)
    IN  IF data.version = NULL
        THEN Out(AgentResponse("releases", data, 400, "Version is required", Nothing), w)
        ELSE IF Len(existingRelease) > 0
        THEN Out(AgentResponse("releases", data, 409,
                               "Release with this version already exists",
                               [releaseId |-> existingRelease[1].id]), w)
        ELSE IF data.repository = NULL \/ ReleaseVersionTaken(w, data.version)
        THEN Out(AgentResponse("releases", data, 500, "Failed to create release",
                               Nothing), w)
        ELSE Out(AgentResponse("releases", data, 201, "none", AgentReleaseRow(w, data)),
                 [w EXCEPT !.releases = Append(w.releases, AgentReleaseRow(w, data))])

\* a pull request of POST /prs; mergedAt 0 is a missing one, labelsGiven
\* tells whether the labels array is there
AgentPr(prNumber, mergedAt, labelsGiven, labels) ==
    [prNumber |-> prNumber, title |-> "t", author |-> "dev", mergedAt |-> mergedAt,
     labelsGiven |-> labelsGiven, labels |-> labels]

AddPullRequestsRequests ==
    [releaseId : 0..2,
     pullRequests : {<<AgentPr(1, 1, TRUE, <<S_feature, S_breaking_change>>),
                       AgentPr(3, 1, TRUE, <<S_break>>), AgentPr(4, 1, FALSE, <<>>)>>,
                     <<AgentPr(2, 0, TRUE, <<S_bug>>), AgentPr(2, 1, FALSE, <<>>)>>}]

\* a chain that matches the labels as they are written
AgentCategoryIdCaseSensitive(labels, cats) ==
    LET labelLowerCase == [k \in 1..Len(labels) |-> labels[k]]
    IN  IF SomeLabelIncludes(labelLowerCase, {S_feat, S_feature})
        THEN CategoryIdByName(cats, "Features")
        ELSE IF SomeLabelIncludes(labelLowerCase, {S_fix, S_bug})
        THEN CategoryIdByName(cats, "Bug Fixes")
        ELSE IF SomeLabelIncludes(labelLowerCase, {S_improve, S_enhancement})
        THEN CategoryIdByName(cats, "Improvements")
        ELSE IF SomeLabelIncludes(labelLowerCase, {S_doc})
        THEN CategoryIdByName(cats, "Documentation")
        ELSE IF SomeLabelIncludes(labelLowerCase, {S_dep})
        THEN CategoryIdByName(cats, "Dependencies")
        ELSE IF SomeLabelIncludes(labelLowerCase, {S_break})
        THEN CategoryIdByName(cats, "Breaking Changes")
        ELSE NoId

\* the label-to-category chain of handleAddPullRequests
AgentCategoryIdForLabels(labels, cats) ==
    LET labelLowerCase == [k \in 1..Len(labels) |-> ToLowerCase(labels[k])]
    IN  IF SomeLabelIncludes(labelLowerCase, {S_feat, S_feature})
        THEN CategoryIdByName(cats, "Features")
        ELSE IF SomeLabelIncludes(labelLowerCase, {S_fix, S_bug})
        THEN CategoryIdByName(cats, "Bug Fixes")
        ELSE IF SomeLabelIncludes(labelLowerCase, {S_improve, S_enhancement})
        THEN CategoryIdByName(cats, "Improvements")
        ELSE IF SomeLabelIncludes(labelLowerCase, {S_doc})
        THEN CategoryIdByName(cats, "Documentation")
        ELSE IF SomeLabelIncludes(labelLowerCase, {S_dep})
        THEN CategoryIdByName(cats, "Dependencies")
        ELSE IF SomeLabelIncludes(labelLowerCase, {S_break})
        THEN CategoryIdByName(cats, "Breaking Changes")
        ELSE NoId

\* the row handleAddPullRequests inserts
AgentPullRequestRow(w, pr, releaseId) ==
    [id |-> NextId(w.pullRequests), prNumber |-> pr.prNumber, releaseId |-> releaseId,
     title |-> pr.title, author |-> pr.author, mergedAt |-> pr.mergedAt,
     labels |-> IF pr.labelsGiven THEN JsonStringify(pr.labels) ELSE Nothing,
     categoryId |-> IF pr.labelsGiven THEN AgentCategoryIdForLabels(pr.labels, w.categories)
                    ELSE NoId]

\* the loop of handleAddPullRequests
RECURSIVE AddPullRequestsLoop(_, _, _, _)
AddPullRequestsLoop(w, releaseId, prs, results) ==
    IF prs = <<>> THEN [w |-> w, results |-> results]
    ELSE LET pr == Head(prs)
         IN  IF pr.prNumber = 0 \/ pr.title = NULL \/ pr.author = NULL \/ pr.mergedAt = 0
             THEN AddPullRequestsLoop(w, releaseId, Tail(prs), Append(results, "skipped"))
             ELSE IF Len(Limit1(PullRequestsBy(w, pr.prNumber, releaseId))) > 0
             THEN AddPullRequestsLoop(w, releaseId, Tail(prs), Append(results, "exists"))
             ELSE AddPullRequestsLoop(
                     [w EXCEPT !.pullRequests =
                         Append(w.pullRequests, AgentPullRequestRow(w, pr, releaseId))],
                     releaseId, Tail(prs), Append(results, "added"))

\* handleAddPullRequests
handleAddPullRequests(w0, data) ==
    LET w == AfterInitializeDefaultCategories(w0)
        done == AddPullRequestsLoop(w, data.releaseId, data.pullRequests, <<>>)
    IN  IF data.releaseId = 0
        THEN Out(AgentResponse("prs", data, 400, "Invalid request format", Nothing), w)
        ELSE IF Len(Limit1(ReleaseById(w, data.releaseId))) = 0
        THEN Out(AgentResponse("prs", data, 404, "Release not found", Nothing), w)
        ELSE Out(AgentResponse("prs", data, 200, "none", done.results), done.w)

\* a commit of POST /commits; date 0 is a missing one
AgentCommit(hash, message, date) ==
    [hash |-> hash, message |-> message, author |-> "dev", date |-> date]

AddCommitsRequests ==
    [releaseId : 0..2,
     commits : {<<AgentCommit("h3", S_fix_login_1, 1)>>,
                <<AgentCommit("h5", S_tidy, 0), AgentCommit("h6", S_see_9_and_1, 1)>>}]

\* the row handleAddCommits inserts
AgentCommitRow(w, commit, releaseId, pullRequestId) ==
    [id |-> NextId(w.commits), hash |-> commit.hash, releaseId |-> releaseId,
     pullRequestId |-> pullRequestId, message |-> commit.message,
     author |-> commit.author]

\* "Find associated PR if a PR number is mentioned in the commit message"
AgentCommitLink(w, message, releaseId) ==
    LET prNumber == MatchPrNumber(message)
        pr == IF prNumber = NoMatch THEN <<>>
              ELSE Limit1(PullRequestsBy(w, prNumber, releaseId))
    IN  IF Len(pr) > 0 THEN pr[1].id ELSE NoId

\* the loop of handleAddCommits
RECURSIVE AddCommitsLoop(_, _, _, _)
AddCommitsLoop(w, releaseId, cs, results) ==
    IF cs = <<>> THEN [w |-> w, results |-> results]
    ELSE LET commit == Head(cs)
         IN  IF \/ commit.hash = NULL \/ commit.message = Nothing
                \/ commit.author = NULL \/ commit.date = 0
             THEN AddCommitsLoop(w, releaseId, Tail(cs), Append(results, "skipped"))
             ELSE IF Len(Limit1(CommitsByHash(w, commit.hash))) > 0
             THEN AddCommitsLoop(w, releaseId, Tail(cs), Append(results, "exists"))
             ELSE AddCommitsLoop(
                     [w EXCEPT !.commits =
                         Append(w.commits,
                                AgentCommitRow(w, commit, releaseId,
                                    AgentCommitLink(w, commit.message, releaseId)))],
                     releaseId, Tail(cs), Append(results, "added"))

\* handleAddCommits
handleAddCommits(w0, data) ==
    LET w == AfterInitializeDefaultCategories(w0)
        done == AddCommitsLoop(w, data.releaseId, data.commits, <<>>)
    IN  IF data.releaseId = 0
        THEN Out(AgentResponse("commits", data, 400, "Invalid request format", Nothing), w)
        ELSE IF Len(Limit1(ReleaseById(w, data.releaseId))) = 0
        THEN Out(AgentResponse("commits", data, 404, "Release not found", Nothing), w)
        ELSE Out(AgentResponse("commits", data, 200, "none", done.results), done.w)

-----------------------------------------------------------------------------
(* Actions and specifications *)

\* the store after a step
StoreBecomes(w) ==
    /\ releases' = w.releases
    /\ pullRequests' = w.pullRequests
    /\ commits' = w.commits

\* POST /webhooks/github, start to response, for deliveries that arrive
\* one after the other
Webhook ==
    /\ \A q \in ReqIds : ~InFlight(q)
    /\ delivered < MaxDeliveries
    /\ delivered' = delivered + 1
    /\ \E d \in Deliveries :
         \E signature \in SignaturesFor(JsonStringify(d[2])) :
            LET received == Received(1, d[1], JsonStringify(d[2]), signature)
            IN  \E plan \in PlansFor(received) :
                   LET out == Complete(received, World, plan, 0)
                   IN  /\ reqs' = [reqs EXCEPT ![1] = out.rec]
                       /\ StoreBecomes(out.w)
    /\ UNCHANGED <<categories, now, webhookSecret>>

\* time passes
Tick ==
    /\ now < MaxTime
    /\ now' = now + 1
    /\ UNCHANGED <<releases, pullRequests, commits, categories, reqs, webhookSecret, delivered>>

\* ReleaseAgent.initializeDefaultCategories, on the first request to the agent
InitializeDefaultCategories ==
    /\ Len(categories) = 0
    /\ categories' = DefaultCategories
    /\ UNCHANGED <<releases, pullRequests, commits, reqs, now, webhookSecret, delivered>>

Init ==
    /\ releases = <<>>
    /\ pullRequests = <<>>
    /\ commits = <<>>
    /\ categories = <<>>
    /\ reqs = [r \in ReqIds |-> IdleReq]
    /\ now = 1
    /\ webhookSecret \in {Secret, ""}
    /\ delivered = 0

Next ==
    \/ Tick
    \/ InitializeDefaultCategories
    \/ Webhook

Spec == Init /\ [][Next]_vars

\* the deliveries that overlap in SpecConc
ConcDeliveries ==
    {<<"release", ReleasePayload("published", R2, "v1", "notes")>>,
     <<"pull_request",
       [action |-> "closed", repo |-> R2, pull_request |-> PullRequest(1, 1, <<S_Bug>>)]>>,
     <<"push", PushPayload(R2, S_main, <<PushCommit("h3", S_fix_login_1)>>)>>}

\* a delivery arrives while others may be in flight
Deliver(r) ==
    /\ ~InFlight(r)
    /\ delivered < MaxDeliveries
    /\ delivered' = delivered + 1
    /\ \E d \in ConcDeliveries :
         reqs' = [reqs EXCEPT ![r] =
            Received(r, d[1], JsonStringify(d[2]),
                     SignatureHeader("sha256=", Secret, JsonStringify(d[2])))]
    /\ UNCHANGED <<releases, pullRequests, commits, categories, now, webhookSecret>>

\* the request in slot r takes its next step
Step(r) ==
    /\ InFlight(r)
    /\ \E env \in Envs :
         LET out == StepOf(reqs[r], World, env)
         IN  /\ reqs' = [reqs EXCEPT ![r] = out.rec]
             /\ StoreBecomes(out.w)
    /\ UNCHANGED <<categories, now, webhookSecret, delivered>>

NextConc ==
    \/ Tick
    \/ InitializeDefaultCategories
    \/ \E r \in ReqIds : Deliver(r)
    \/ \E r \in ReqIds : Step(r)

SpecConc == Init /\ [][NextConc]_vars

\* a release whose pull requests are fetched from GitHub, and the webhook
\* of one of those pull requests
BackfillDeliveries ==
    {<<"release", ReleasePayload("published", R1, "v1", "notes")>>,
     <<"pull_request",
       [action |-> "closed", repo |-> R1, pull_request |-> PullRequest(1, 1, <<S_Bug>>)]>>}

\* a delivery arrives while the backfill of a release may be in flight;
\* one delivery for each slot
DeliverDuringBackfill(r) ==
    /\ ~InFlight(r)
    /\ delivered < MaxInFlight
    /\ delivered' = delivered + 1
    /\ \E d \in BackfillDeliveries :
         reqs' = [reqs EXCEPT ![r] =
            Received(r, d[1], JsonStringify(d[2]),
                     SignatureHeader("sha256=", Secret, JsonStringify(d[2])))]
    /\ UNCHANGED <<releases, pullRequests, commits, categories, now, webhookSecret>>

NextBackfill ==
    \/ Tick
    \/ InitializeDefaultCategories
    \/ \E r \in ReqIds : DeliverDuringBackfill(r)
    \/ \E r \in ReqIds : Step(r)

SpecBackfill == Init /\ [][NextBackfill]_vars

\* a push with a commit that has no message, a hash that comes twice and
\* a message with two references
MixedPush ==
    PushPayload(R2, S_main,
                <<PushCommit("h3", S_fix_login_1),
                  [id |-> "h8", message |-> Nothing, author |-> "dev"],
                  PushCommit("h3", S_tidy),
                  PushCommit("h6", S_see_9_and_1)>>)

\* the deliveries that arrive between the requests to the agent
AgentDeliveries ==
    ConcDeliveries
    \cup {<<"release", ReleasePayload("published", R1, "v1", "notes")>>,
          <<"pull_request",
            [action |-> "closed", repo |-> R1, pull_request |-> PullRequest(1, 0, <<S_Bug>>)]>>,
          <<"push", MixedPush>>}

\* a webhook that arrives between the requests to the agent, start to response
WebhookDelivery ==
    /\ \A q \in ReqIds : ~InFlight(q)
    /\ delivered < MaxDeliveries
    /\ delivered' = delivered + 1
    /\ \E d \in AgentDeliveries :
         LET raw == JsonStringify(d[2])
             received == Received(1, d[1], raw, SignatureHeader("sha256=", Secret, raw))
             out == Complete(received, World, [failAt |-> 0, backend |-> "json"], 0)
         IN  /\ reqs' = [reqs EXCEPT ![1] = out.rec]
             /\ StoreBecomes(out.w)
    /\ UNCHANGED <<categories, now, webhookSecret>>

\* the response of the agent and the store it leaves
AgentResponds(out) ==
    /\ delivered' = delivered + 1
    /\ reqs' = [reqs EXCEPT ![1] = out.rec]
    /\ StoreBecomes(out.w)
    /\ categories' = out.w.categories
    /\ UNCHANGED <<now, webhookSecret>>

\* POST /generate-notes
GenerateNotes ==
    /\ \A q \in ReqIds : ~InFlight(q)
    /\ delivered < MaxDeliveries
    /\ \E data \in GenerateNotesRequests : AgentResponds(handleGenerateNotes(World, data))

\* POST /releases
CreateRelease ==
    /\ \A q \in ReqIds : ~InFlight(q)
    /\ delivered < MaxDeliveries
    /\ \E data \in CreateReleaseRequests : AgentResponds(handleCreateRelease(World, data))

\* POST /prs
AddPullRequests ==
    /\ \A q \in ReqIds : ~InFlight(q)
    /\ delivered < MaxDeliveries
    /\ \E data \in AddPullRequestsRequests : AgentResponds(handleAddPullRequests(World, data))

\* POST /commits
AddCommits ==
    /\ \A q \in ReqIds : ~InFlight(q)
    /\ delivered < MaxDeliveries
    /\ \E data \in AddCommitsRequests : AgentResponds(handleAddCommits(World, data))

NextAgent ==
    \/ Tick
    \/ InitializeDefaultCategories
    \/ WebhookDelivery
    \/ GenerateNotes
    \/ CreateRelease
    \/ AddPullRequests
    \/ AddCommits

SpecAgent == Init /\ [][NextAgent]_vars

\* a webhook of ConcDeliveries, start to response, in a run long enough to
\* store a pull request after a commit that refers to it and to deliver
\* the push again
LateDelivery ==
    /\ \A q \in ReqIds : ~InFlight(q)
    /\ delivered < MaxDeliveries + 1
    /\ delivered' = delivered + 1
    /\ \E d \in ConcDeliveries :
         LET raw == JsonStringify(d[2])
             received == Received(1, d[1], raw, SignatureHeader("sha256=", Secret, raw))
             out == Complete(received, World, [failAt |-> 0, backend |-> "json"], 0)
         IN  /\ reqs' = [reqs EXCEPT ![1] = out.rec]
             /\ StoreBecomes(out.w)
    /\ UNCHANGED <<categories, now, webhookSecret>>

NextLate ==
    \/ Tick
    \/ InitializeDefaultCategories
    \/ LateDelivery
    \/ AddCommits

SpecLate == Init /\ [][NextLate]_vars

-----------------------------------------------------------------------------
(* Properties of sequential deliveries (Spec) *)

\* the Release, PullRequest and Commit rows, update timestamps aside
IngestedRows ==
    <<[k \in 1..Len(releases) |-> [releases[k] EXCEPT !.updatedAt = 0]],
      pullRequests, commits>>

\* the same rows, the generated notes of the releases aside as well
IngestedColumns ==
    <<[k \in 1..Len(releases) |->
          [releases[k] EXCEPT !.updatedAt = 0, !.generatedNotes = Nothing]],
      pullRequests, commits>>

\* C1: a delivery that repeats the delivery before it (same event, same
\* body) leaves the Release, PullRequest and Commit rows as the first
\* delivery left them, update timestamps aside: no row is added, none is
\* changed.  When the first delivery was answered with an error, the
\* repeated one may still write the generated notes the first one did not
\* get to, and nothing else
C1_RedeliveryKeepsRows ==
    [][/\ (delivered' = delivered + 1 /\ reqs'[1].after = "ok")
            => IngestedRows' = IngestedRows
       /\ (delivered' = delivered + 1 /\ reqs'[1].after = "failed")
            => IngestedColumns' = IngestedColumns]_vars

\* a published release with its two backfilled pull requests and their
\* commits has been delivered a second time
C1_ReleaseRedelivered ==
    /\ reqs[1].pc = "done" /\ reqs[1].after = "ok"
    /\ reqs[1].ev = "release" /\ reqs[1].status = "updated"
    /\ Len(pullRequests) = 2 /\ Len(commits) = 2

\* C4: a release event (published or created) of a repository for a tag
\* that only a release of another repository carries inserts a published
\* release of (repository, tag), leaves the rows there were unchanged and,
\* unless a collaborator failed, answers `created`
C4_SameTagOtherRepositoryCreates ==
    [][(/\ delivered' = delivered + 1
        /\ reqs'[1].ev = "release" /\ reqs'[1].parsed
        /\ reqs'[1].p.action \in {"published", "created"}
        /\ \E k \in 1..Len(releases) :
              /\ releases[k].version = reqs'[1].p.tag
              /\ releases[k].repository # reqs'[1].p.repo
        /\ ReleaseByRepoVersion(World, reqs'[1].p.repo, reqs'[1].p.tag) = <<>>)
        => /\ Len(releases') = Len(releases) + 1
           /\ \A k \in 1..Len(releases) : releases'[k] = releases[k]
           /\ releases'[Len(releases')].repository = reqs'[1].p.repo
           /\ releases'[Len(releases')].version = reqs'[1].p.tag
           /\ releases'[Len(releases')].publishedStatus = "published"
           /\ (reqs'[1].err = "none" => reqs'[1].status = "created")]_vars

\* C5: a merged pull_request event of a repository without releases,
\* whatever the other repositories have, creates one draft release
\* `unreleased` of that repository, stores the pull request under it and
\* answers `draft-release-created`
C5_DraftReleasePerRepository ==
    [][(/\ delivered' = delivered + 1
        /\ reqs'[1].ev = "pull_request" /\ reqs'[1].parsed
        /\ reqs'[1].p.action = "closed" /\ reqs'[1].p.pull_request.merged_at # 0
        /\ ReleasesOf(World, reqs'[1].p.repo) = <<>>)
        => LET repo == reqs'[1].p.repo
               drafts == SelectSeq(releases', LAMBDA row : row.repository = repo)
           IN  /\ reqs'[1].status = "draft-release-created"
               /\ Len(drafts) = 1
               /\ drafts[1].version = "unreleased"
               /\ drafts[1].publishedStatus = "draft"
               /\ \E k \in 1..Len(pullRequests') :
                     /\ pullRequests'[k].releaseId = drafts[1].id
                     /\ pullRequests'[k].prNumber = reqs'[1].p.pull_request.number]_vars

\* C6: a delivery whose signature header is missing or is not the digest of
\* its body under the configured secret is answered 401; its body is not
\* parsed, no handler runs and no table changes
C6_BadSignatureRejected ==
    [][(/\ delivered' = delivered + 1
        /\ reqs'[1].sig # SignatureHeader("sha256=", webhookSecret, reqs'[1].raw))
        => /\ reqs'[1].http = 401
           /\ ~reqs'[1].parsed /\ reqs'[1].p = Nothing
           /\ reqs'[1].releaseId = NoId /\ reqs'[1].count = 0
           /\ store' = store]_vars

\* a signature computed with another key has been rejected while the
\* store holds rows
C6_ForgedSignatureSeen ==
    /\ reqs[1].pc = "done" /\ reqs[1].http = 401
    /\ webhookSecret = Secret
    /\ reqs[1].sig = SignatureHeader("sha256=", "guess", reqs[1].raw)
    /\ Len(releases) > 0 /\ Len(pullRequests) > 0

\* C18: a delivery passes verifyWebhookSignature exactly when a secret is
\* configured and the signature header is sha256= followed by the digest
\* of the raw body under that secret; a missing header, another prefix, an
\* empty secret, another key or the digest of another body are answered
\* 401 like any other rejection
C18_SignatureAcceptedExactly ==
    [][delivered' = delivered + 1
        => (reqs'[1].http # 401
              <=> /\ webhookSecret # ""
                  /\ reqs'[1].sig # Nothing
                  /\ reqs'[1].sig[1] = "sha256="
                  /\ reqs'[1].sig[2] = HmacSha256Hex(webhookSecret, reqs'[1].raw))]_vars

\* a delivery signed with the configured secret has been accepted and
\* its handler has stored a release
C18_SignedDeliveryAccepted ==
    /\ reqs[1].pc = "done" /\ reqs[1].parsed /\ reqs[1].http = 200
    /\ webhookSecret = Secret
    /\ reqs[1].sig = SignatureHeader("sha256=", Secret, reqs[1].raw)
    /\ Len(releases) > 0

\* the formats generateReleaseNotes is asked for
Formats == {"json", "markdown", "html"}

\* the backend fails or answers what does not parse
FailingBackends == BackendOutcomes \ {"json"}

\* C7: with a backend that fails or answers unparseable output,
\* generateReleaseNotes raises for no stored release, format, or stored
\* categories and pull requests
C7_FallbackNeverRaises ==
    \A k \in 1..Len(releases) : \A format \in Formats : \A backend \in FailingBackends :
        ~generateReleaseNotes(releases[k],
                              PullRequestsOfRelease(World, releases[k].id),
                              CommitsOfRelease(World, releases[k].id),
                              categories, format, TRUE, backend).threw

C8_RedeliveryCompletesBackfill ==
    (/\ reqs[1].pc = "done" /\ reqs[1].after = "failed"
     /\ reqs[1].ev = "release" /\ reqs[1].http = 200)
    => LET repo == reqs[1].p.repo
           fetched == fetchMergedPullRequests(repo)
       IN  \A n \in 1..Len(fetched) :
              /\ PullRequestsBy(World, fetched[n].number, reqs[1].releaseId) # <<>>
              /\ \A m \in 1..Len(GitHubPullCommits(repo, fetched[n].number)) :
                    CommitsByHash(World,
                        GitHubPullCommits(repo, fetched[n].number)[m].sha) # <<>>

\* C9: a release delivery during whose backfill a source-control call
\* failed is acknowledged with `created`, and when the list of pull
\* requests had been fetched every one of them is stored
C9_BackfillFailureSkipped ==
    (reqs[1].pc = "done" /\ reqs[1].err = "upstream")
    => /\ reqs[1].http = 200 /\ reqs[1].status = "created"
       /\ PullRequestsOfRelease(World, reqs[1].releaseId) # <<>>
            => \A n \in 1..Len(fetchMergedPullRequests(reqs[1].p.repo)) :
                  PullRequestsBy(World, fetchMergedPullRequests(reqs[1].p.repo)[n].number,
                                 reqs[1].releaseId) # <<>>

\* C10: an accepted delivery of an unsupported event, of a release whose
\* action is neither published nor created, of a pull request that is not
\* closed and merged, or of a push to another branch than the default one
\* is answered 200 and changes no table
C10_IgnoredDeliveryChangesNothing ==
    [][(/\ delivered' = delivered + 1 /\ reqs'[1].parsed
        /\ \/ reqs'[1].ev \notin {"release", "pull_request", "push"}
           \/ /\ reqs'[1].ev = "release"
              /\ reqs'[1].p.action \notin {"published", "created"}
           \/ /\ reqs'[1].ev = "pull_request"
              /\ ~(/\ reqs'[1].p.action = "closed"
                   /\ reqs'[1].p.pull_request.merged_at # 0)
           \/ /\ reqs'[1].ev = "push"
              /\ reqs'[1].p.ref # S_refs_heads \o reqs'[1].p.default_branch)
        => reqs'[1].http = 200 /\ store' = store]_vars

\* C11: a merged pull_request event or a push that is attached to a
\* release of its repository is attached to one with the latest release
\* date among the releases of that repository
C11_AttachedToMostRecentRelease ==
    [][(/\ delivered' = delivered + 1 /\ reqs'[1].parsed
        /\ reqs'[1].ev \in {"pull_request", "push"}
        /\ reqs'[1].status \in {"added", "processed"})
        => \A k \in 1..Len(releases) :
              releases[k].repository = reqs'[1].p.repo
                 => releases[k].releaseDate
                        <= ReleaseById(World, reqs'[1].releaseId)[1].releaseDate]_vars

\* C15: a push is processed only when its ref is refs/heads/ followed by
\* the default branch; a push with any other ref is answered 'ignored'
\* with count 0 and stores no commit
C15_OnlyDefaultBranchProcessed ==
    [][(/\ delivered' = delivered + 1 /\ reqs'[1].parsed /\ reqs'[1].ev = "push")
        => IF reqs'[1].p.ref = S_refs_heads \o reqs'[1].p.default_branch
           THEN reqs'[1].status # "ignored"
           ELSE /\ reqs'[1].status = "ignored" /\ reqs'[1].count = 0
                /\ commits' = commits]_vars

-----------------------------------------------------------------------------
(* Properties of the requests to the agent (SpecAgent) *)

\* whether rendered notes have a section with the given title
HasSection(doc, title) ==
    \E k \in 1..Len(doc[2]) :
        doc[2][k].mark = MarkOf(doc[1], "section") /\ doc[2][k].text = <<title>>

\* the items of the first section with the given title: the item lines
\* from its heading to the next heading
SectionItems(doc, title) ==
    LET lines == doc[2]
        IsHead(k) == lines[k].mark = MarkOf(doc[1], "section")
        head == CHOOSE k \in 1..Len(lines) :
                    /\ IsHead(k) /\ lines[k].text = <<title>>
                    /\ \A m \in 1..(k - 1) : ~(IsHead(m) /\ lines[m].text = <<title>>)
    IN  IF ~HasSection(doc, title) THEN <<>>
        ELSE [n \in 1..Cardinality({k \in (head + 1)..Len(lines) :
                                      \A m \in (head + 1)..k : ~IsHead(m)})
                |-> lines[head + n]]

\* the pull requests without a category row are the items of the entry
\* titled 'Other Changes', and there is no such entry when there are none
OtherChangesListed(entries, uncategorized) ==
    LET titled == SelectSeq(entries, LAMBDA e : e.title = "Other Changes")
    IN  IF uncategorized = <<>> THEN titled = <<>>
        ELSE /\ Len(titled) = 1
             /\ titled[1].items = [n \in 1..Len(uncategorized) |->
                                      NotesItem(uncategorized[n])]

\* C13: for every stored release and every format, the changelog that
\* generateMockResponse and handleGenerateNotes assemble from the stored
\* rows lists the pull requests whose categoryId is null or names no
\* category under 'Other Changes', in the structured notes and in the
\* text, and has that section only when there is such a pull request
C13_UncategorizedUnderOtherChanges ==
    \A k \in 1..Len(releases) : \A format \in Formats :
        LET prs == PullRequestsOfRelease(World, releases[k].id)
            uncategorized == SelectSeq(prs, LAMBDA pr :
                                CategoryNameOf(pr, categories) = "Other Changes")
            mock == generateMockResponse(releases[k], prs, categories, format)
            agentCategories ==
                AgentNotesCategories(prs,
                    OrderByDisplayOrder(AfterInitializeDefaultCategories(World).categories))
            agentText == RenderNotes([version |-> releases[k].version,
                                      name |-> releases[k].name,
                                      releaseDate |-> releases[k].releaseDate,
                                      description |-> releases[k].description,
                                      categories |-> agentCategories,
                                      commits |-> Nothing],
                                     IF format = "json" THEN "markdown" ELSE format)
        IN  /\ OtherChangesListed(agentCategories, uncategorized)
            /\ HasSection(agentText, "Other Changes") <=> uncategorized # <<>>
            /\ Len(SectionItems(agentText, "Other Changes")) = Len(uncategorized)
            /\ ~mock.threw
            /\ OtherChangesListed(IF format = "json"
                                  THEN JsonParse(mock.value).categories
                                  ELSE mock.value.sections, uncategorized)

\* C12: from a store without data, a published release event creates a
\* published release; the merged pull request event with label Bug that
\* follows is stored under that release with category 'Bug Fixes'; the
\* markdown generation without commits that follows returns a section
\* 'Bug Fixes' with exactly one item, which refers to that pull request
C12_EndToEndBugFixes ==
    [][/\ (/\ releases = <<>> /\ pullRequests = <<>> /\ commits = <<>>
           /\ categories = <<>>
           /\ delivered' = delivered + 1
           /\ reqs'[1].ev = "release" /\ reqs'[1].status = "created")
          => Len(releases') = 1 /\ releases'[1].publishedStatus = "published"
       /\ (/\ reqs[1].ev = "release" /\ reqs[1].status = "created"
           /\ Len(releases) = 1 /\ pullRequests = <<>>
           /\ delivered' = delivered + 1
           /\ reqs'[1].ev = "pull_request" /\ reqs'[1].status = "added")
          => \E k \in 1..Len(pullRequests') :
                /\ pullRequests'[k].prNumber = reqs'[1].p.pull_request.number
                /\ pullRequests'[k].releaseId = releases[1].id
                /\ CategoryNameOf(pullRequests'[k], categories') = "Bug Fixes"
       /\ (/\ reqs[1].ev = "pull_request" /\ reqs[1].status = "added"
           /\ Len(releases) = 1 /\ Len(pullRequests) = 1
           /\ delivered' = delivered + 1
           /\ reqs'[1].ev = "generate-notes" /\ reqs'[1].http = 200
           /\ reqs'[1].p.releaseId = releases[1].id
           /\ reqs'[1].p.format = "markdown" /\ ~reqs'[1].p.includeCommits)
          => /\ Len(SectionItems(reqs'[1].gen.raw, "Bug Fixes")) = 1
             /\ SectionItems(reqs'[1].gen.raw, "Bug Fixes")[1].ref
                    = pullRequests[1].prNumber]_vars

\* the priority order of the categories and the words that select each
CategoryPriority ==
    << [words |-> {S_feat, S_feature}, name |-> "Features"],
       [words |-> {S_fix, S_bug}, name |-> "Bug Fixes"],
       [words |-> {S_improve, S_enhancement}, name |-> "Improvements"],
       [words |-> {S_doc}, name |-> "Documentation"],
       [words |-> {S_dep}, name |-> "Dependencies"],
       [words |-> {S_break}, name |-> "Breaking Changes"] >>

\* the first category in priority order one of whose words is part of a
\* lower-cased label; NULL when there is none
categorize(labels) ==
    LET hit(c) == \E k \in 1..Len(labels) : \E word \in CategoryPriority[c].words :
                      Includes(ToLowerCase(labels[k]), word)
        hits == {c \in 1..Len(CategoryPriority) : hit(c)}
    IN  IF hits = {} THEN NULL
        ELSE CategoryPriority[CHOOSE c \in hits : \A o \in hits : c <= o].name

\* C14: the category of every stored pull request is the one its labels
\* select in the priority order Features, Bug Fixes, Improvements,
\* Documentation, Dependencies, Breaking Changes, and none when no label
\* selects one or there is no label
C14_CategoryIsFunctionOfLabels ==
    \A k \in 1..Len(pullRequests) :
        LET labels == IF pullRequests[k].labels = Nothing THEN <<>>
                      ELSE JsonParse(pullRequests[k].labels)
        IN  pullRequests[k].categoryId
                = CategoryIdByName(DefaultCategories, categorize(labels))

\* C17: in every state, a commit with a pull request link links to a
\* pull_requests row of the commit's own release, whether the commit was
\* stored by a push, by the backfill or by POST /commits
C17_CommitLinksWithinRelease ==
    \A k \in 1..Len(commits) :
        \/ commits[k].pullRequestId = NoId
        \/ \E n \in 1..Len(pullRequests) :
              /\ pullRequests[n].id = commits[k].pullRequestId
              /\ pullRequests[n].releaseId = commits[k].releaseId

\* POST /commits has just stored a commit with a link, next to a linked
\* commit that a webhook delivery stored
C17_LinkedCommitsStored ==
    /\ reqs[1].ev = "commits" /\ reqs[1].http = 200
    /\ \E n \in 1..Len(reqs[1].gen) : reqs[1].gen[n] = "added"
    /\ Len(commits) > 1
    /\ commits[Len(commits)].pullRequestId # NoId
    /\ commits[1].pullRequestId # NoId

\* C19: in every state every pull_requests row has a merge timestamp; a
\* pull_request event without merged_at stores no row, the backfill of a
\* release stores no row for a closed pull request that was not merged,
\* and POST /prs stores rows only for the pull requests that carry a
\* mergedAt, with that timestamp
C19_OnlyMergedPullRequestsStored ==
    /\ [](\A k \in 1..Len(pullRequests) : pullRequests[k].mergedAt # 0)
    /\ [][delivered' = delivered + 1 =>
            LET new == SubSeq(pullRequests', Len(pullRequests) + 1, Len(pullRequests'))
            IN  /\ (/\ reqs'[1].ev = "pull_request" /\ reqs'[1].parsed
                    /\ reqs'[1].p.pull_request.merged_at = 0)
                   => new = <<>>
                /\ (reqs'[1].ev = "release" /\ reqs'[1].parsed)
                   => \A k \in 1..Len(new) :
                        \E n \in 1..Len(GitHubClosedPulls(reqs'[1].p.repo)) :
                          /\ GitHubClosedPulls(reqs'[1].p.repo)[n].number = new[k].prNumber
                          /\ GitHubClosedPulls(reqs'[1].p.repo)[n].merged_at # 0
                          /\ GitHubClosedPulls(reqs'[1].p.repo)[n].merged_at = new[k].mergedAt
                /\ reqs'[1].ev = "prs"
                   => \A k \in 1..Len(new) :
                        \E n \in 1..Len(reqs'[1].p.pullRequests) :
                          /\ reqs'[1].p.pullRequests[n].prNumber = new[k].prNumber
                          /\ reqs'[1].p.pullRequests[n].mergedAt # 0
                          /\ reqs'[1].p.pullRequests[n].mergedAt = new[k].mergedAt
                          /\ reqs'[1].gen[n] = "added"]_vars

\* POST /prs has skipped a pull request without mergedAt and added the
\* next one, in a store that holds the pull requests of a backfill
C19_PullRequestWithoutMergeSkipped ==
    /\ reqs[1].ev = "prs" /\ reqs[1].http = 200
    /\ reqs[1].gen = <<"skipped", "added">>
    /\ \E k \in 1..Len(releases) :
          /\ releases[k].repository = R1
          /\ Len(PullRequestsOfRelease(World, releases[k].id)) > 1

C22_MalformedWriteRejectedWhole ==
    [][(/\ delivered' = delivered + 1
        /\ reqs'[1].ev \in {"prs", "commits"}
        /\ \/ reqs'[1].p.releaseId = 0
           \/ \E k \in 1..Len(releases) : releases[k].id = reqs'[1].p.releaseId
        /\ \/ /\ reqs'[1].ev = "prs"
              /\ \/ reqs'[1].p.releaseId = 0
                 \/ \E n \in 1..Len(reqs'[1].p.pullRequests) :
                       \/ reqs'[1].p.pullRequests[n].prNumber = 0
                       \/ reqs'[1].p.pullRequests[n].mergedAt = 0
           \/ /\ reqs'[1].ev = "commits"
              /\ \/ reqs'[1].p.releaseId = 0
                 \/ \E n \in 1..Len(reqs'[1].p.commits) :
                       \/ reqs'[1].p.commits[n].hash = NULL
                       \/ reqs'[1].p.commits[n].message = Nothing
                       \/ reqs'[1].p.commits[n].date = 0)
        => /\ reqs'[1].http = 400
           /\ releases' = releases /\ pullRequests' = pullRequests
           /\ commits' = commits]_vars

\* C23: POST /releases with a version and a repository is answered 409
\* with the id of the stored release when a release has that version, and
\* inserts no row; otherwise it inserts exactly one release, a draft, and
\* is answered 201 with it
C23_CreateReleaseOnceOrConflict ==
    [][(/\ delivered' = delivered + 1 /\ reqs'[1].ev = "releases"
        /\ reqs'[1].p.version # NULL /\ reqs'[1].p.repository # NULL)
        => /\ pullRequests' = pullRequests /\ commits' = commits
           /\ IF \E k \in 1..Len(releases) : releases[k].version = reqs'[1].p.version
              THEN /\ reqs'[1].http = 409
                   /\ \E k \in 1..Len(releases) :
                         /\ releases[k].version = reqs'[1].p.version
                         /\ releases[k].id = reqs'[1].gen.releaseId
                   /\ releases' = releases
              ELSE /\ reqs'[1].http = 201
                   /\ Len(releases') = Len(releases) + 1
                   /\ SubSeq(releases', 1, Len(releases)) = releases
                   /\ releases'[Len(releases')] = reqs'[1].gen
                   /\ reqs'[1].gen.version = reqs'[1].p.version
                   /\ reqs'[1].gen.repository = reqs'[1].p.repository
                   /\ reqs'[1].gen.publishedStatus = "draft"
                   /\ \A k \in 1..Len(releases) : releases[k].id # reqs'[1].gen.id]_vars

\* POST /releases has been refused for the version of a release that a
\* webhook delivery published
C23_VersionConflictAnswered ==
    /\ reqs[1].ev = "releases" /\ reqs[1].http = 409
    /\ \E k \in 1..Len(releases) :
          /\ releases[k].id = reqs[1].gen.releaseId
          /\ releases[k].publishedStatus = "published"

\* C24: an accepted release event, published or created, for a stored
\* repository and version is answered 'updated'; it sets the release's
\* name, description, status published and updatedAt, keeps its id,
\* version, repository and release date, and changes no other release, no
\* pull request and no commit, so nothing is backfilled
C24_RedeliveredReleaseUpdated ==
    [][(/\ delivered' = delivered + 1 /\ reqs'[1].ev = "release" /\ reqs'[1].parsed
        /\ reqs'[1].p.action \in {"published", "created"}
        /\ \E k \in 1..Len(releases) :
              /\ releases[k].repository = reqs'[1].p.repo
              /\ releases[k].version = reqs'[1].p.tag)
        => /\ reqs'[1].http = 200 /\ reqs'[1].status = "updated"
           /\ Len(releases') = Len(releases)
           /\ \A k \in 1..Len(releases) :
                 releases'[k] =
                    IF /\ releases[k].repository = reqs'[1].p.repo
                       /\ releases[k].version = reqs'[1].p.tag
                    THEN [releases[k] EXCEPT
                            !.name = reqs'[1].p.name,
                            !.description = reqs'[1].p.body,
                            !.publishedStatus = "published",
                            !.updatedAt = now,
                            !.generatedNotes = releases'[k].generatedNotes]
                    ELSE releases[k]
           /\ pullRequests' = pullRequests /\ commits' = commits]_vars

\* a release event has been answered 'updated' for a release of o/r1 that
\* holds no pull request: the draft that POST /releases created is now
\* published, and the pull requests of o/r1 were not fetched
C24_DraftPublishedByEvent ==
    /\ reqs[1].ev = "release" /\ reqs[1].status = "updated"
    /\ \E k \in 1..Len(releases) :
          /\ releases[k].id = reqs[1].releaseId
          /\ releases[k].repository = R1
          /\ releases[k].publishedStatus = "published"
          /\ releases[k].description = "notes"
          /\ PullRequestsOfRelease(World, releases[k].id) = <<>>

-----------------------------------------------------------------------------
(* Properties of late deliveries (SpecLate) *)

\* C35: no step changes a stored commits row: its release and its pull
\* request link stay as inserted, also when the pull request that its
\* message refers to is stored afterwards and when the push or the
\* POST /commits that stored it comes again
C35_StoredCommitKept ==
    [][\A k \in 1..Len(commits) :
          /\ k <= Len(commits')
          /\ commits'[k] = commits[k]]_vars

\* a push was delivered after the pull request its commit refers to had
\* been stored under the commit's release: the commit, stored before the
\* pull request by an earlier push or POST /commits, has no link
C35_PushRedeliveredAfterPullRequest ==
    /\ reqs[1].pc = "done" /\ reqs[1].ev = "push" /\ reqs[1].status = "processed"
    /\ reqs[1].count = 0
    /\ \E k \in 1..Len(commits) :
          /\ commits[k].hash = reqs[1].p.commits[1].id
          /\ commits[k].pullRequestId = NoId
          /\ \E n \in 1..Len(pullRequests) :
                /\ pullRequests[n].prNumber = MatchPrNumber(commits[k].message)
                /\ pullRequests[n].releaseId = commits[k].releaseId

-----------------------------------------------------------------------------
(* Properties of a delivery that meets the backfill (SpecBackfill) *)

\* C25: when storePullRequest runs for a pull request whose number is
\* already stored under the release, on a webhook delivery or in the
\* backfill, every pull_requests row stays as it was, labels and category
\* included, none is added, the category is not looked up again, and a
\* pull_request delivery answers with the id of the stored row
C25_StoredPullRequestKept ==
    [][\A r \in ReqIds :
        (/\ reqs[r].pc = "sp_select"
         /\ reqs'[r] # reqs[r]
         /\ \E k \in 1..Len(pullRequests) :
               /\ pullRequests[k].prNumber = CurrentPr(reqs[r]).number
               /\ pullRequests[k].releaseId = reqs[r].releaseId)
        => /\ pullRequests' = pullRequests
           /\ reqs'[r].pc \notin {"sp_categories", "sp_insert"}
           /\ reqs[r].ev = "pull_request"
                => /\ reqs'[r].pc = "done" /\ reqs'[r].http = 200
                   /\ \E k \in 1..Len(pullRequests) :
                         /\ pullRequests[k].id = reqs'[r].prId
                         /\ pullRequests[k].prNumber = reqs[r].p.pull_request.number
                         /\ pullRequests[k].releaseId = reqs[r].releaseId]_vars

\* the webhook of a pull request was answered with the id of the row that
\* the backfill had stored with other labels and before any category existed
C25_StoredRowMetAgain ==
    \E r \in ReqIds :
        /\ reqs[r].pc = "done" /\ reqs[r].ev = "pull_request" /\ reqs[r].http = 200
        /\ Len(categories) > 0
        /\ \E k \in 1..Len(pullRequests) :
              /\ pullRequests[k].id = reqs[r].prId
              /\ pullRequests[k].labels # JsonStringify(reqs[r].p.pull_request.labels)
              /\ pullRequests[k].categoryId = NoId
              /\ CategoryIdForLabels(reqs[r].p.pull_request.labels, categories) # NoId

\* the backfill met the row that the webhook of the pull request had stored
C25_BackfillMetStoredRow ==
    \E r \in ReqIds :
        /\ reqs[r].pc = "done" /\ reqs[r].ev = "release" /\ reqs[r].status = "created"
        /\ Cardinality({k \in 1..Len(pullRequests) : pullRequests[k].prNumber = 1}) = 1
        /\ \E k \in 1..Len(pullRequests) :
              /\ pullRequests[k].prNumber = 1
              /\ pullRequests[k].labels = JsonStringify(<<S_Bug>>)

\* C26: a push delivery that is answered returns the number of commits rows
\* it appended; the rows are one for each hash of the payload that was not
\* stored and whose commit has id, message and author; nothing else is
\* written; and for a repository without a release the answer is
\* no-release with count 0 and no row at all
C26_PushCountsInsertedCommits ==
    [][(/\ delivered' = delivered + 1
        /\ reqs'[1].ev = "push" /\ reqs'[1].parsed /\ reqs'[1].http = 200)
       => LET payload == reqs'[1].p
              added == Len(commits') - Len(commits)
              complete == {j \in 1..Len(payload.commits) :
                              /\ payload.commits[j].id # NULL
                              /\ payload.commits[j].message # Nothing
                              /\ payload.commits[j].author # NULL}
              stored == {commits[k].hash : k \in 1..Len(commits)}
              fresh == {payload.commits[j].id : j \in complete} \ stored
          IN  /\ added >= 0 /\ SubSeq(commits', 1, Len(commits)) = commits
              /\ releases' = releases /\ pullRequests' = pullRequests
              /\ reqs'[1].count = added
              /\ reqs'[1].status = "processed"
                   => /\ {commits'[k].hash : k \in (Len(commits) + 1)..Len(commits')} = fresh
                      /\ added = Cardinality(fresh)
              /\ reqs'[1].status # "processed" => added = 0
              /\ (\A k \in 1..Len(releases) : releases[k].repository # payload.repo)
                   => /\ reqs'[1].status \in {"no-release", "ignored"}
                      /\ reqs'[1].count = 0
                      /\ commits' = commits]_vars

\* of the four commits of a push, two were inserted and counted: the one
\* without a message and the second of the same hash were skipped
C26_TwoOfFourCounted ==
    /\ reqs[1].pc = "done" /\ reqs[1].ev = "push" /\ reqs[1].status = "processed"
    /\ reqs[1].p = MixedPush
    /\ reqs[1].count = 2
    /\ Len(commits) = 2

\* a push for a repository without a release was answered no-release
C26_PushWithoutRelease ==
    /\ reqs[1].pc = "done" /\ reqs[1].ev = "push" /\ reqs[1].status = "no-release"
    /\ reqs[1].count = 0
    /\ Len(commits) = 0 /\ Len(releases) = 0

\* the link C27 expects for a commits row: the id of the first stored pull
\* request of the row's release whose number is the leftmost "#<digits>"
\* of the message, NoId without a reference or without such a pull request
ExpectedLink(row) ==
    LET n == MatchPrNumber(row.message)
        hits == {k \in 1..Len(pullRequests) :
                    /\ pullRequests[k].prNumber = n
                    /\ pullRequests[k].releaseId = row.releaseId}
    IN  IF n = NoMatch \/ hits = {} THEN NoId
        ELSE pullRequests[CHOOSE k \in hits : \A g \in hits : k <= g].id

SectionTitles(doc) ==
    LET heads == SelectSeq(doc[2], LAMBDA l :
                    l.mark = MarkOf(doc[1], "section") /\ l.text # <<"Commits">>)
    IN  [k \in 1..Len(heads) |-> heads[k].text[1]]

\* whether the titles follow one another as they do in order, none twice
InOrderOf(titles, order) ==
    /\ \A k \in 1..Len(titles) : \E n \in 1..Len(order) : order[n] = titles[k]
    /\ \A k, m \in 1..Len(titles) :
          k < m => \E a, b \in 1..Len(order) :
                      a < b /\ order[a] = titles[k] /\ order[b] = titles[m]

\* the names with a pull request of the release, 'Other Changes' for the
\* pull requests without category
SectionsDue(releaseId) ==
    {IF pullRequests[k].categoryId = NoId THEN "Other Changes"
     ELSE CategoryNameOf(pullRequests[k], DefaultCategories) :
        k \in {n \in 1..Len(pullRequests) : pullRequests[n].releaseId = releaseId}}

\* a step to markdown or html notes of POST /generate-notes with one section for
\* each category that has a pull request of the release and none for the
\* others, in the given order
SectionsFollow(order) ==
    (/\ delivered' = delivered + 1
        /\ reqs'[1].ev = "generate-notes" /\ reqs'[1].http = 200
     /\ reqs'[1].gen.format \in {"markdown", "html"})
    => LET titles == SectionTitles(reqs'[1].gen.raw)
       IN  /\ {titles[k] : k \in 1..Len(titles)} = SectionsDue(reqs'[1].p.releaseId)
           /\ \A k \in 1..Len(titles) :
                 Len(SectionItems(reqs'[1].gen.raw, titles[k])) > 0
           /\ InOrderOf(titles, order)

TaxonomyNames ==
    {"Features", "Bug Fixes", "Improvements", "Documentation", "Dependencies",
     "Breaking Changes"}

\* the table holds the six categories, each name on one row
SixCategories(cats) ==
    /\ Len(cats) = 6
    /\ {cats[k].name : k \in 1..Len(cats)} = TaxonomyNames

\* C30: the categories table is empty or holds the six categories, each
\* name once; a request to the agent leaves the six in it, seeding them
\* when it was empty; a table that is not empty is never written again,
\* whatever the operation; and a webhook delivery does not write it at all
C30_CategoriesSeededOnce ==
    /\ [](categories = <<>> \/ SixCategories(categories))
    /\ [][/\ (/\ delivered' = delivered + 1
              /\ reqs'[1].ev \in {"generate-notes", "releases", "prs", "commits"})
             => SixCategories(categories')
          /\ categories # <<>> => categories' = categories
          /\ (/\ delivered' = delivered + 1
              /\ reqs'[1].ev \in {"release", "pull_request", "push"})
             => categories' = categories]_vars

\* after a webhook delivery onto the empty table, a request to the agent
\* seeded the six categories and a second request added pull requests
C30_SeededThenUsed ==
    /\ delivered = 3
    /\ SixCategories(categories)
    /\ reqs[1].pc = "done" /\ reqs[1].ev = "prs" /\ reqs[1].http = 200
    /\ \E k \in 1..Len(releases) : releases[k].publishedStatus = "draft"
    /\ \E k \in 1..Len(releases) : releases[k].publishedStatus = "published"
    /\ Len(pullRequests) > 0

\* the pull_requests rows of a number under the releases of a repository
RowsOfPullRequest(repository, number) ==
    {k \in 1..Len(pullRequests) :
        /\ pullRequests[k].prNumber = number
        /\ \E n \in 1..Len(releases) :
              /\ releases[n].id = pullRequests[k].releaseId
              /\ releases[n].repository = repository}

\* a pull_request delivery for a number that has a row under a release of
\* its repository adds no pull_requests row and changes none
RedeliveredPullRequestKept ==
    (/\ delivered' = delivered + 1
     /\ reqs'[1].ev = "pull_request" /\ reqs'[1].parsed
     /\ RowsOfPullRequest(reqs'[1].p.repo, reqs'[1].p.pull_request.number) # {})
    => pullRequests' = pullRequests

GenPcs == {"gen_release", "gen_prs", "gen_commits", "gen_categories", "gen_update"}

\* C32: a release delivery is in the note generation only after
\* processReleaseEvent returned created or updated, with the release
\* stored and, when created, every merged pull request of the repository
\* and each of its commits stored; the steps of the generation write
\* nothing but the notes and the update time of releases; the delivery is
\* then answered 200 with the status of the ingestion, and when the
\* generation failed no row has changed at all
C32_GenerationAfterIngestion ==
    /\ [](\A r \in ReqIds :
            reqs[r].pc \in GenPcs
            => /\ reqs[r].ev = "release" /\ reqs[r].status \in {"created", "updated"}
               /\ \E k \in 1..Len(releases) :
                     /\ releases[k].id = reqs[r].releaseId
                     /\ releases[k].repository = reqs[r].p.repo
                     /\ releases[k].version = reqs[r].p.tag
               /\ reqs[r].status = "created"
                    => \A n \in 1..Len(GitHubClosedPulls(reqs[r].p.repo)) :
                          LET pr == GitHubClosedPulls(reqs[r].p.repo)[n]
                          IN  pr.merged_at # 0
                              => /\ \E k \in 1..Len(pullRequests) :
                                       /\ pullRequests[k].prNumber = pr.number
                                       /\ pullRequests[k].releaseId = reqs[r].releaseId
                                 /\ \A m \in 1..Len(GitHubPullCommits(reqs[r].p.repo, pr.number)) :
                                       \E k \in 1..Len(commits) :
                                          commits[k].hash
                                            = GitHubPullCommits(reqs[r].p.repo, pr.number)[m].sha)
    /\ [][\A r \in ReqIds :
            (reqs[r].pc \in GenPcs /\ reqs'[r] # reqs[r])
            => /\ pullRequests' = pullRequests /\ commits' = commits
               /\ Len(releases') = Len(releases)
               /\ \A k \in 1..Len(releases) :
                     releases'[k] = [releases[k] EXCEPT
                                        !.generatedNotes = releases'[k].generatedNotes,
                                        !.updatedAt = releases'[k].updatedAt]
               /\ reqs'[r].pc \in GenPcs \cup {"done"}
               /\ reqs'[r].pc = "done"
                    => /\ reqs'[r].http = 200 /\ reqs'[r].status = reqs[r].status
                       /\ reqs'[r].genErr => releases' = releases]_vars

\* a release was created with its two pull requests and their commits,
\* its note generation failed, and the delivery was answered 200 created
C32_GenerationFailedAfterCreate ==
    \E r \in ReqIds :
        /\ reqs[r].pc = "done" /\ reqs[r].ev = "release" /\ reqs[r].genErr
        /\ reqs[r].http = 200 /\ reqs[r].status = "created"
        /\ Len(pullRequests) >= 2 /\ Len(commits) >= 2
        /\ \A k \in 1..Len(releases) : releases[k].generatedNotes = Nothing

\* C33: no step of a webhook delivery, of a manual add or of a generation
\* removes a releases, pull_requests or commits row or changes its id or
\* its identity (version and repository; number and release; hash and
\* release), and a published release stays published
C33_RowsKeptWithIdentity ==
    [][/\ Len(releases') >= Len(releases)
       /\ Len(pullRequests') >= Len(pullRequests)
       /\ Len(commits') >= Len(commits)
       /\ \A k \in 1..Len(releases) :
             /\ releases'[k].id = releases[k].id
             /\ releases'[k].version = releases[k].version
             /\ releases'[k].repository = releases[k].repository
             /\ releases[k].publishedStatus = "published"
                  => releases'[k].publishedStatus = "published"
       /\ \A k \in 1..Len(pullRequests) :
             /\ pullRequests'[k].id = pullRequests[k].id
             /\ pullRequests'[k].prNumber = pullRequests[k].prNumber
             /\ pullRequests'[k].releaseId = pullRequests[k].releaseId
       /\ \A k \in 1..Len(commits) :
             /\ commits'[k].id = commits[k].id
             /\ commits'[k].hash = commits[k].hash
             /\ commits'[k].releaseId = commits[k].releaseId]_vars

\* a release created as a draft by POST /releases was published by its
\* webhook and then had its notes generated by POST /generate-notes
C33_DraftPublishedThenGenerated ==
    /\ delivered = 3
    /\ reqs[1].pc = "done" /\ reqs[1].ev = "generate-notes" /\ reqs[1].http = 200
    /\ \E k \in 1..Len(releases) :
          /\ releases[k].id = reqs[1].p.releaseId
          /\ releases[k].publishedStatus = "published"
          /\ releases[k].generatedNotes # Nothing
          /\ releases[k].description = "notes"
          /\ releases[k].repository = R1
    /\ Len(pullRequests) = 0

\* the pull request numbers listed in the categories of structured notes
ListedNumbers(cats) ==
    [k \in 1..Len(cats) |-> [n \in 1..Len(cats[k].items) |-> cats[k].items[n].prNumber]]

\* the categories list each pull request of the release in the store once,
\* under one category, and nothing else
ListsRelease(cats, prs, releaseId) ==
    LET mine == {k \in 1..Len(prs) : prs[k].releaseId = releaseId}
        places(number) == {<<k, n>> \in (1..Len(cats)) \X (1..Len(prs)) :
                              n <= Len(cats[k].items)
                              /\ cats[k].items[n].prNumber = number}
        total == Len(prs) - Cardinality({k \in 1..Len(prs) : prs[k].releaseId # releaseId})
        count[k \in 0..Len(cats)] ==
            IF k = 0 THEN 0 ELSE count[k - 1] + Len(cats[k].items)
    IN  /\ count[Len(cats)] = total
        /\ \A k \in mine : Cardinality(places(prs[k].prNumber)) = 1
        /\ \A k \in 1..Len(cats) : \A n \in 1..Len(cats[k].items) :
              \E p \in mine : prs[p].prNumber = cats[k].items[n].prNumber

\* C34: the structured notes that POST /generate-notes returns, and those
\* that a release delivery generates and stores, list every pull request
\* of the release under exactly one category and nothing else: the item
\* counts add up to the number of pull requests of the release
C34_NotesListReleaseOnce ==
    [][/\ (/\ delivered' = delivered + 1
           /\ reqs'[1].ev = "generate-notes" /\ reqs'[1].http = 200)
          => ListsRelease(reqs'[1].gen.releaseNotes.categories, pullRequests',
                          reqs'[1].p.releaseId)
       /\ (/\ delivered' = delivered + 1
           /\ reqs'[1].ev = "release" /\ reqs'[1].http = 200
           /\ reqs'[1].status \in {"created", "updated"} /\ ~reqs'[1].genErr)
          => \E k \in 1..Len(releases') :
                /\ releases'[k].id = reqs'[1].releaseId
                /\ ListsRelease(JsonParse(releases'[k].generatedNotes).categories,
                                pullRequests', reqs'[1].releaseId)]_vars

\* notes were returned for a release with pull requests under two
\* categories while another release had a pull request of its own
C34_TwoReleasesWithPullRequests ==
    /\ reqs[1].pc = "done" /\ reqs[1].ev = "generate-notes" /\ reqs[1].http = 200
    /\ Len(reqs[1].gen.releaseNotes.categories) >= 2
    /\ \E k \in 1..Len(pullRequests) : pullRequests[k].releaseId # reqs[1].p.releaseId

\* the number of items of each category section of rendered notes, top
\* to bottom
SectionSizes(doc) ==
    [k \in 1..Len(SectionTitles(doc)) |-> Len(SectionItems(doc, SectionTitles(doc)[k]))]

LabelTexts ==
    {S_feature, S_bug, S_Bug, S_fix, S_enhancement, S_doc, S_dep, S_break,
     S_breaking_change, S_main}

\* no label, each label alone, and pairs of labels of different categories
\* in both orders
LabelLists ==
    {<<>>} \cup {<<a>> : a \in LabelTexts}
    \cup {<<a, b>> : a, b \in {S_feature, S_Bug, S_break, S_main}}

\* C37: for every label list and the category table of the state, the
\* chain of storePullRequest and the chain of handleAddPullRequests
\* choose the same category; and the category of every pull_requests row
\* that a webhook delivery or POST /prs stores with labels is the one
\* that both chains choose for its labels and the table of that step
C37_BothPathsChooseSameCategory ==
    /\ [](\A labels \in LabelLists :
            CategoryIdForLabels(labels, categories)
                = AgentCategoryIdForLabels(labels, categories))
    /\ [][\A k \in (Len(pullRequests) + 1)..Len(pullRequests') :
            pullRequests'[k].labels # Nothing
            => /\ pullRequests'[k].categoryId
                    = CategoryIdForLabels(JsonParse(pullRequests'[k].labels), categories')
               /\ pullRequests'[k].categoryId
                    = AgentCategoryIdForLabels(JsonParse(pullRequests'[k].labels),
                                               categories')]_vars

\* with the categories seeded, a webhook stored a pull request under Bug
\* Fixes and POST /prs stored pull requests under Features and Breaking
\* Changes
C37_StoredByBothPaths ==
    /\ reqs[1].pc = "done" /\ reqs[1].ev = "prs" /\ reqs[1].http = 200
    /\ \E a, b, c \in 1..Len(pullRequests) :
          /\ pullRequests[a].labels = JsonStringify(<<S_Bug>>)
          /\ pullRequests[a].categoryId = CategoryIdByName(categories, "Bug Fixes")
          /\ pullRequests[a].categoryId # NoId
          /\ pullRequests[b].categoryId = CategoryIdByName(categories, "Features")
          /\ pullRequests[c].categoryId = CategoryIdByName(categories, "Breaking Changes")

-----------------------------------------------------------------------------
(* Properties of overlapping deliveries (SpecConc) *)

\* C2: no two pull_requests rows have the same pr_number and release_id,
\* also when deliveries of the same pull request interleave
C2_UniquePullRequestPerRelease ==
    \A a, b \in 1..Len(pullRequests) :
        (/\ pullRequests[a].prNumber = pullRequests[b].prNumber
         /\ pullRequests[a].releaseId = pullRequests[b].releaseId) => a = b

\* C3: when deliveries of a push overlap, every hash is stored once and no
\* accepted push delivery fails
C3_ConcurrentPushStoredOnce ==
    /\ \A a, b \in 1..Len(commits) : commits[a].hash = commits[b].hash => a = b
    /\ \A r \in ReqIds :
          (reqs[r].pc = "done" /\ reqs[r].parsed /\ reqs[r].ev = "push")
             => reqs[r].http = 200

\* C16: in every state, whatever the interleaving of the release and
\* pull_request deliveries, no two releases rows have the same repository
\* and version; in particular a repository has at most one 'unreleased'
\* draft
C16_OneReleasePerRepositoryVersion ==
    \A a, b \in 1..Len(releases) :
        (/\ releases[a].repository = releases[b].repository
         /\ releases[a].version = releases[b].version) => a = b

\* two deliveries of the same release or pull request overlapped and the
\* insert of the second release row was refused
C16_SecondInsertRefused ==
    \E r, q \in ReqIds :
        /\ r # q /\ reqs[r].pc = "done" /\ reqs[r].err = "unique"
        /\ reqs[r].ev \in {"release", "pull_request"}
        /\ reqs[q].ev = reqs[r].ev /\ reqs[q].parsed
        /\ Len(ReleasesOf(World, reqs[r].p.repo)) > 0

====
